---- MODULE Spec2Model ----
(***************************************************************************)
(* Model of the Jira/Claude webhook orchestrator (JiraWebhookProcessor),   *)
(* its evaluation scoring (ClaudeTestingEvaluator.calculateFinalScore) and *)
(* the tracker / artifact-store state they act on.                         *)
(*                                                                         *)
(* Text is modelled as a sequence of tokens; String.includes(marker) is    *)
(* membership of the marker token, and each regular expression is the set  *)
(* of key tokens it matches.  One webhook delivery is one run of           *)
(* processWebhook; the run is cut at every await, so each action is the    *)
(* synchronous code between two awaits together with the outcome of the    *)
(* awaited external call (success or failure, chosen nondeterministically).*)
(***************************************************************************)
EXTENDS Integers, Sequences, FiniteSets, TLC

VARIABLES
    payload,        \* the webhook payload of the current delivery
    pc,             \* position of the run inside processWebhook and its phase handler
    classification, \* processWebhook's classification of the event (none while not classified)
    result,         \* what processWebhook returned (or "thrown")
    calls,          \* external calls issued by the run, in order
    originalKey,    \* originalKey extracted by the phase handler
    highestStage,   \* highestStage read by the phase handler
    errorMessage,   \* message of the error travelling to a catch block
    implementation, \* result of generateImplementation / loadImplementationResult
    fetched,        \* issue snapshot returned by the last getIssue of the delivered issue
    claudeResponse, \* raw evaluation response handed to parseEvaluationResponse
    evaluation,     \* parsed adapter evaluation handed to calculateFinalScore
    finalScore,     \* result of calculateFinalScore
    jiraLabels,     \* tracker: labels of the delivered issue
    jiraComments,   \* tracker: titles of the comments on the delivered issue
    jiraFields,     \* tracker: summary/description/status of the delivered issue as written by the run
    created,        \* tracker: issues created by createIssue
    links,          \* tracker: issue links created by linkIssues
    workItems,      \* artifact store: work-items/<key>/implementation and /evaluation
    analysis,       \* what analyzeRequirements returned to processInitialInquiry
    targetStage,    \* the newStage argument of the updateStageLabel calls driven on their own
    runs            \* concurrent deliveries for one criteria issue: position and locals of each

vars == <<analysis, targetStage, runs, payload, pc, classification, result, calls, originalKey, highestStage, errorMessage,
          implementation, fetched, claudeResponse, evaluation, finalScore, jiraLabels,
          jiraComments, jiraFields, created, links, workItems>>

-----------------------------------------------------------------------------
(* Bounds *)

\* largest number of labels on the delivered issue
MaxLabels == 2
\* largest number of entries in an evaluation's error list
MaxErrors == 2

-----------------------------------------------------------------------------
(* Values *)

None == "none"
NoIssue == [key |-> "<missing issue>"]
NoChangelog == {"<missing changelog>"}

WebhookEvents == {"jira:issue_created", "jira:issue_updated", "jira:issue_deleted"}
IssueKeys == {"", "PCP1-68"}
IssueTypes == {"Story", "Task", "Bug"}
Statuses == {"To Do", "Ready for Implementation", "In Progress",
             "Ready for Development", "Testing Criteria", "Code Complete"}
Changelogs == {NoChangelog, {"description"}, {"status"}}

\* the marker strings of hasClaudeMarkers
claudeMarkers == {"Claude Generated", "*Touched by Claude*", "Deliverable Criteria:",
                  "Implementation:", "*Generated by Claude Automation System*"}

Summaries == { <<>>,
               <<"Fix login bug">>,
               <<"Implementation:", "Fix login bug">>,
               <<"Deliverable Criteria:", "PCP1-67", "-", "Fix login bug">>,
               <<"Deliverable Criteria:", "Fix login bug">> }

Descriptions == { <<>>,
                  <<"Users cannot log in">>,
                  <<"Users cannot log in", "*Touched by Claude*">>,
                  <<"*Generated by Claude Automation System*">>,
                  <<"Claude Generated", "**Original Issue:** ABC-12",
                    "## Functional Requirements", "*Generated by Claude Automation System*">> }

stageLabels == {"claude-stage-analyzed", "claude-stage-implemented", "claude-stage-tested"}
overrideLabels == {"claude-force-reimplement", "claude-force-retest"}
Labels == stageLabels \cup overrideLabels \cup {"backend"}
LabelSets == {L \in SUBSET Labels : Cardinality(L) <= MaxLabels}
\* a label arrives either as a plain string (what the tracker sends and what
\* updateStageLabel writes) or as an object with a name property
LabelReps == {"string", "object"}

ImplementationTypes == {"code", "documentation", "analysis", "process", "other"}

-----------------------------------------------------------------------------
(* Text helpers *)

\* String.prototype.includes on token text
Includes(text, marker) == \E i \in 1..Len(text) : text[i] = marker

\* String.prototype.match(regex)[1]: the leftmost token the pattern matches
FirstMatch(text, matching) ==
    IF \E i \in 1..Len(text) : text[i] \in matching
    THEN text[CHOOSE i \in 1..Len(text) :
                 /\ text[i] \in matching
                 /\ \A j \in 1..(i-1) : text[j] \notin matching]
    ELSE None

\* tokens matched by /(PCP1-\d+)/, /([A-Z]{2,}-\d+)/ and /([A-Za-z]+\d*-\d+)/
ProjectSpecificPattern == {"PCP1-67", "PCP1-68"}
GenericPattern == {"ABC-12"}
PermissivePattern == {"PCP1-67", "PCP1-68", "ABC-12", "abc1-3"}
\* lines matched by /\*\*Original Issue:\*\* ([A-Z]+-\d+)/ and the key captured;
\* the letters must be followed by the dash, so "**Original Issue:** PCP1-67" is no match
OriginalIssueLines == {"**Original Issue:** ABC-12"}
CapturedKey(line) == IF line = "**Original Issue:** ABC-12" THEN "ABC-12" ELSE None

-----------------------------------------------------------------------------
(* Classification engine *)

HasIssue(p) == p.issue # NoIssue /\ p.issue.key # ""

\* isValidWebhookEvent without the Story/Task filter
isValidWebhookEvent_NoTypeFilter(p) ==
    IF p.webhookEvent \notin {"jira:issue_created", "jira:issue_updated"} THEN FALSE
    ELSE IF ~HasIssue(p) THEN FALSE
    ELSE IF p.webhookEvent = "jira:issue_updated"
         THEN IF ~(p.changelog # NoChangelog /\ "status" \in p.changelog) THEN FALSE
              ELSE IF Includes(p.issue.summary, "Deliverable Criteria:")
                   THEN p.issue.status \in {"Ready for Implementation", "In Progress",
                                            "Ready for Development", "Testing Criteria"}
                   ELSE FALSE
         ELSE TRUE

\* isValidWebhookEvent without the changelog test on updated events
isValidWebhookEvent_NoChangelogTest(p) ==
    IF p.webhookEvent \notin {"jira:issue_created", "jira:issue_updated"} THEN FALSE
    ELSE IF ~HasIssue(p) THEN FALSE
    ELSE IF p.issue.issuetype \notin {"Story", "Task"} THEN FALSE
    ELSE IF p.webhookEvent = "jira:issue_updated"
         THEN IF Includes(p.issue.summary, "Deliverable Criteria:")
              THEN p.issue.status \in {"Ready for Implementation", "In Progress",
                                       "Ready for Development", "Testing Criteria"}
              ELSE FALSE
         ELSE TRUE

isValidWebhookEvent(p) ==
    IF p.webhookEvent \notin {"jira:issue_created", "jira:issue_updated"} THEN FALSE
    ELSE IF ~HasIssue(p) THEN FALSE
    ELSE IF p.issue.issuetype \notin {"Story", "Task"} THEN FALSE
    ELSE IF p.webhookEvent = "jira:issue_updated"
         THEN IF ~(p.changelog # NoChangelog /\ "status" \in p.changelog) THEN FALSE
              ELSE IF Includes(p.issue.summary, "Deliverable Criteria:")
                   THEN p.issue.status \in {"Ready for Implementation", "In Progress",
                                            "Ready for Development", "Testing Criteria"}
                   ELSE FALSE
         ELSE TRUE

\* hasClaudeMarkers with the description test negated
hasClaudeMarkers_NegatedDescription(summary, description) ==
    \E marker \in claudeMarkers : Includes(summary, marker) \/ ~Includes(description, marker)

hasClaudeMarkers(summary, description) ==
    \E marker \in claudeMarkers : Includes(summary, marker) \/ Includes(description, marker)

isReadyForImplementation(p) ==
    p.issue.status \in {"Ready for Implementation", "In Progress", "Ready for Development"}

\* classifyIssueType without the Testing Criteria branch
classifyIssueType_NoTestingBranch(p) ==
    IF ~hasClaudeMarkers(p.issue.summary, p.issue.description) THEN "initial_inquiry"
    ELSE IF Includes(p.issue.summary, "Deliverable Criteria:")
         THEN IF isReadyForImplementation(p) THEN "deliverable_criteria"
              ELSE "ignore"
         ELSE "ignore"

\* classifyIssueType sending every issue that is not a criteria issue to analysis
classifyIssueType_FallThroughToInquiry(p) ==
    IF ~hasClaudeMarkers(p.issue.summary, p.issue.description) THEN "initial_inquiry"
    ELSE IF Includes(p.issue.summary, "Deliverable Criteria:")
         THEN IF p.issue.status = "Testing Criteria" THEN "testing_criteria"
              ELSE IF isReadyForImplementation(p) THEN "deliverable_criteria"
              ELSE "ignore"
         ELSE "initial_inquiry"

classifyIssueType(p) ==
    IF ~hasClaudeMarkers(p.issue.summary, p.issue.description) THEN "initial_inquiry"
    ELSE IF Includes(p.issue.summary, "Deliverable Criteria:")
         THEN IF p.issue.status = "Testing Criteria" THEN "testing_criteria"
              ELSE IF isReadyForImplementation(p) THEN "deliverable_criteria"
              ELSE "ignore"
         ELSE "ignore"

-----------------------------------------------------------------------------
(* Stage tracker and criteria helpers *)

\* labels?.map(label => label.name): a string label has no name property
LabelNames(issue) == IF issue.labelRep = "object" THEN issue.labels ELSE {}

getHighestStageCompleted(issue) ==
    IF "claude-stage-tested" \in LabelNames(issue) THEN "tested"
    ELSE IF "claude-stage-implemented" \in LabelNames(issue) THEN "implemented"
    ELSE IF "claude-stage-analyzed" \in LabelNames(issue) THEN "analyzed"
    ELSE "none"

\* this.hasOverrideLabel ? this.hasOverrideLabel(issue, kind) : false
\* the class defines no hasOverrideLabel method, so the guard is always false
hasOverrideLabel(issue, kind) == FALSE

\* validateClaudeGeneratedCriteria looking at the summary only
validateClaudeGeneratedCriteria_SummaryOnly(issue) ==
    Includes(issue.summary, "Deliverable Criteria:")

validateClaudeGeneratedCriteria(issue) ==
    /\ Includes(issue.summary, "Deliverable Criteria:")
    /\ Includes(issue.description, "*Generated by Claude Automation System*")

\* extractOriginalIssueKey trying the generic pattern before the project-specific one
extractOriginalIssueKey_GenericFirst(summary, description) ==
    IF FirstMatch(summary, GenericPattern) # None
    THEN FirstMatch(summary, GenericPattern)
    ELSE IF FirstMatch(summary, ProjectSpecificPattern) # None
    THEN FirstMatch(summary, ProjectSpecificPattern)
    ELSE IF FirstMatch(summary, PermissivePattern) # None
    THEN FirstMatch(summary, PermissivePattern)
    ELSE IF FirstMatch(description, OriginalIssueLines) # None
    THEN CapturedKey(FirstMatch(description, OriginalIssueLines))
    ELSE None

extractOriginalIssueKey(summary, description) ==
    IF FirstMatch(summary, ProjectSpecificPattern) # None
    THEN FirstMatch(summary, ProjectSpecificPattern)
    ELSE IF FirstMatch(summary, GenericPattern) # None
    THEN FirstMatch(summary, GenericPattern)
    ELSE IF FirstMatch(summary, PermissivePattern) # None
    THEN FirstMatch(summary, PermissivePattern)
    ELSE IF FirstMatch(description, OriginalIssueLines) # None
    THEN CapturedKey(FirstMatch(description, OriginalIssueLines))
    ELSE None

-----------------------------------------------------------------------------
(* Artifact store *)

ArtifactKeys == {"PCP1-67", "PCP1-68", "ABC-12", "abc1-3"}
NoFiles == << >>

getPrimaryFileName(type) ==
    CASE type = "code" -> "solution.js"
      [] type = "documentation" -> "document.md"
      [] type = "analysis" -> "analysis.md"
      [] type = "process" -> "process.md"
      [] type = "other" -> "deliverable.txt"
      [] OTHER -> "implementation.txt"

getValidationFileName(type) ==
    CASE type = "code" -> "tests.js"
      [] type = "documentation" -> "validation-checklist.md"
      [] type = "analysis" -> "peer-review-criteria.md"
      [] type = "process" -> "validation-plan.md"
      [] OTHER -> "validation.md"

shouldCreateConfigFile(type) == type \in {"code", "process"}

getConfigFileName(type) ==
    CASE type = "code" -> "package.json"
      [] type = "process" -> "process-config.json"
      [] OTHER -> "config.json"

getPrimaryFileForType(type) ==
    CASE type = "code" -> "solution.js"
      [] type = "documentation" -> "document.md"
      [] type = "analysis" -> "analysis.md"
      [] type = "process" -> "process.md"
      [] OTHER -> "implementation.txt"

\* results the implementation adapter can return after its own validation
ImplementationResults ==
    [type : ImplementationTypes, supportingFiles : {{}, {"helper.js"}},
     hasTests : BOOLEAN, hasDocumentation : BOOLEAN]

\* the files createImplementationArtifacts writes, in the order it writes them
ArtifactFiles(impl) ==
    <<[name |-> getPrimaryFileName(impl.type), content |-> "primaryDeliverable"]>>
    \o (IF "helper.js" \in impl.supportingFiles
        THEN <<[name |-> "helper.js", content |-> "supportingFile"]>> ELSE <<>>)
    \o (IF impl.hasTests
        THEN <<[name |-> getValidationFileName(impl.type), content |-> "tests"]>> ELSE <<>>)
    \o (IF impl.hasDocumentation
        THEN <<[name |-> "README.md", content |-> "documentation"]>> ELSE <<>>)
    \o <<[name |-> "implementation-summary.md", content |-> "summary"]>>
    \o (IF shouldCreateConfigFile(impl.type)
        THEN <<[name |-> getConfigFileName(impl.type), content |-> "config"]>> ELSE <<>>)

\* fs.writeFile of the first n files of a list into a directory
RECURSIVE WriteFiles(_, _, _)
WriteFiles(dir, files, n) ==
    IF n = 0 THEN dir
    ELSE LET f == files[n]
             before == WriteFiles(dir, files, n - 1)
         IN [name \in DOMAIN before \cup {f.name} |->
                 IF name = f.name THEN f.content ELSE before[name]]

EmptyStore == [k \in ArtifactKeys |-> [implementation |-> NoFiles, evaluation |-> NoFiles]]

\* the store before the delivery: nothing yet, or the bundle of an earlier implementation run
InitialStores ==
    {EmptyStore} \cup
    { [EmptyStore EXCEPT !["PCP1-67"].implementation =
           WriteFiles(NoFiles, ArtifactFiles(impl), Len(ArtifactFiles(impl)))] :
        impl \in {i \in ImplementationResults :
                    i.supportingFiles = {} /\ i.hasTests /\ i.hasDocumentation
                    /\ i.type \in {"code", "other"}} }

\* loadImplementationResult: the type it reconstructs from a directory listing
LoadedType(dir) ==
    IF "solution.js" \in DOMAIN dir THEN "code"
    ELSE IF "document.md" \in DOMAIN dir THEN "documentation"
    ELSE IF "analysis.md" \in DOMAIN dir THEN "analysis"
    ELSE IF "process.md" \in DOMAIN dir THEN "process"
    ELSE "other"

\* loadImplementationResult succeeding on any directory, an empty one included
CanLoad_AnyDirectory(dir) == TRUE

\* loadImplementationResult succeeds only when the summary and the primary file can be read
CanLoad(dir) ==
    /\ "implementation-summary.md" \in DOMAIN dir
    /\ getPrimaryFileForType(LoadedType(dir)) \in DOMAIN dir

-----------------------------------------------------------------------------
(* Evaluation adapter: parseEvaluationResponse and calculateFinalScore *)

requiredSections == {"requirementsCoverage", "qualityCraftsmanship", "usabilityPracticality",
                     "completenessPolish", "errors", "overallAssessment"}
Severities == {"CRITICAL", "HIGH", "MEDIUM", "LOW"}
\* category scores an adapter response may carry (the prompt asks for 0-25)
ScoreValues == {-5, 0, 19, 20, 25, 30}
ErrorLists == UNION {[1..n -> Severities] : n \in 0..MaxErrors}

Evaluations ==
    [requirementsCoverage : ScoreValues, qualityCraftsmanship : ScoreValues,
     usabilityPracticality : ScoreValues, completenessPolish : ScoreValues,
     errors : ErrorLists, readyForDeployment : BOOLEAN]

\* a raw response: whether it holds a JSON object, the sections the object has, its values
Responses ==
    { [json |-> TRUE, sections |-> requiredSections, body |-> e] : e \in Evaluations }
    \cup { [json |-> j, sections |-> S, body |-> e] :
             j \in BOOLEAN, S \in {requiredSections \ {x} : x \in requiredSections},
             e \in {ev \in Evaluations : /\ ev.requirementsCoverage = 25
                                         /\ ev.qualityCraftsmanship = 25
                                         /\ ev.usabilityPracticality = 25
                                         /\ ev.completenessPolish = 25
                                         /\ ev.errors = << >>
                                         /\ ev.readyForDeployment} }

ParseError == [parseError |-> TRUE]

parseEvaluationResponse(response) ==
    IF ~response.json THEN ParseError
    ELSE IF \E section \in requiredSections : section \notin response.sections THEN ParseError
    ELSE response.body

CountSeverity(errors, severity) == Cardinality({i \in 1..Len(errors) : errors[i] = severity})

PASSING_SCORE == 80

\* calculateFinalScore counting only CRITICAL errors as blocking
calculateFinalScore_HighNotBlocking(e) ==
    LET overallScore == e.requirementsCoverage + e.qualityCraftsmanship
                        + e.usabilityPracticality + e.completenessPolish
        criticalErrors == CountSeverity(e.errors, "CRITICAL")
        highErrors == CountSeverity(e.errors, "HIGH")
        hasBlockingErrors == criticalErrors > 0
        coreRequirementsMet == e.requirementsCoverage >= 20
    IN [overallScore |-> overallScore,
        maxScore |-> 100,
        errorCount |-> Len(e.errors),
        criticalErrors |-> criticalErrors,
        highErrors |-> highErrors,
        meetsCriteria |-> /\ overallScore >= PASSING_SCORE
                          /\ ~hasBlockingErrors
                          /\ coreRequirementsMet
                          /\ e.readyForDeployment,
        coreRequirementsMet |-> coreRequirementsMet,
        breakdown |-> [requirementsCoverage |-> e.requirementsCoverage,
                       qualityCraftsmanship |-> e.qualityCraftsmanship,
                       usabilityPracticality |-> e.usabilityPracticality,
                       completenessPolish |-> e.completenessPolish]]

calculateFinalScore(e) ==
    LET overallScore == e.requirementsCoverage + e.qualityCraftsmanship
                        + e.usabilityPracticality + e.completenessPolish
        criticalErrors == CountSeverity(e.errors, "CRITICAL")
        highErrors == CountSeverity(e.errors, "HIGH")
        hasBlockingErrors == criticalErrors > 0 \/ highErrors > 0
        coreRequirementsMet == e.requirementsCoverage >= 20
    IN [overallScore |-> overallScore,
        maxScore |-> 100,
        errorCount |-> Len(e.errors),
        criticalErrors |-> criticalErrors,
        highErrors |-> highErrors,
        meetsCriteria |-> /\ overallScore >= PASSING_SCORE
                          /\ ~hasBlockingErrors
                          /\ coreRequirementsMet
                          /\ e.readyForDeployment,
        coreRequirementsMet |-> coreRequirementsMet,
        breakdown |-> [requirementsCoverage |-> e.requirementsCoverage,
                       qualityCraftsmanship |-> e.qualityCraftsmanship,
                       usabilityPracticality |-> e.usabilityPracticality,
                       completenessPolish |-> e.completenessPolish]]

\* the evaluations the orchestrator runs are driven with
SampleEvaluations ==
    {e \in Evaluations :
        /\ e.qualityCraftsmanship = 20 /\ e.usabilityPracticality = 20
        /\ e.completenessPolish = 20 /\ e.requirementsCoverage \in {19, 25}
        /\ e.errors \in {<< >>, <<"CRITICAL">>}
        /\ e.readyForDeployment}

\* the responses the orchestrator runs hand to parseEvaluationResponse: complete ones,
\* one without any JSON object, and one for each missing section
SampleResponses ==
    { [json |-> TRUE, sections |-> requiredSections, body |-> e] : e \in SampleEvaluations }
    \cup { r \in Responses : \/ (~r.json /\ "errors" \notin r.sections)
                              \/ (r.json /\ r.sections # requiredSections) }

\* the sections of an analysis; parseAnalysisResponse asks for the first two only
analysisSections == {"deliveryCriteria", "validationTests", "technicalApproach",
                     "estimatedEffort"}

\* a raw analysis response: whether it holds a JSON object and the sections the object has
AnalysisResponses ==
    {[json |-> FALSE, sections |-> {}]}
    \cup {[json |-> TRUE, sections |-> S] :
            S \in {analysisSections} \cup {analysisSections \ {x} : x \in analysisSections}}

getFallbackAnalysis == [sections |-> analysisSections, fallback |-> TRUE]

parseAnalysisResponse(response) ==
    IF ~response.json THEN getFallbackAnalysis
    ELSE IF "deliveryCriteria" \notin response.sections
            \/ "validationTests" \notin response.sections
    THEN getFallbackAnalysis
    ELSE [sections |-> response.sections, fallback |-> FALSE]

\* the fields parseImplementationResponse requires
implementationFields == {"type", "primaryDeliverable", "title"}

\* a raw implementation response: whether it holds a JSON object, the required fields the
\* object has, its type and its supporting files
ImplementationResponses ==
    { [json |-> TRUE, fields |-> implementationFields, type |-> t, supportingFiles |-> sf] :
        t \in ImplementationTypes, sf \in {{}, {"helper.js"}} }
    \cup { [json |-> j, fields |-> F, type |-> t, supportingFiles |-> {}] :
             j \in BOOLEAN, t \in {"code", "script"},
             F \in {implementationFields} \cup
                   {implementationFields \ {x} : x \in implementationFields} }

parseImplementationResponse(response) ==
    IF ~response.json THEN ParseError
    ELSE IF \E field \in implementationFields : field \notin response.fields THEN ParseError
    ELSE IF response.type \notin ImplementationTypes THEN ParseError
    ELSE [type |-> response.type, supportingFiles |-> response.supportingFiles]

-----------------------------------------------------------------------------
(* Initial states *)

NoResult == [action |-> "<running>", errorType |-> None]
Outcome(action, errorType) == [action |-> action, errorType |-> errorType]
Thrown == Outcome("thrown", None)

IssueOf(key, type, status, summary, description, labels, rep) ==
    [key |-> key, issuetype |-> type, status |-> status, summary |-> summary,
     description |-> description, labels |-> labels, labelRep |-> rep]

\* every shape of event the relay can forward, for an issue without labels
AnyPayloads ==
    { [webhookEvent |-> ev, issue |-> NoIssue, changelog |-> cl] :
        ev \in WebhookEvents, cl \in Changelogs }
    \cup
    { [webhookEvent |-> ev, changelog |-> cl,
       issue |-> IssueOf(k, t, st, su, de, {}, "string")] :
        ev \in WebhookEvents, cl \in Changelogs, k \in IssueKeys, t \in IssueTypes,
        st \in Statuses, su \in Summaries, de \in Descriptions }

\* status-change events for a criteria issue carrying any label set
CriteriaPayloads ==
    { [webhookEvent |-> "jira:issue_updated", changelog |-> {"status"},
       issue |-> IssueOf("PCP1-68", "Task", st, su, de, L, rep)] :
        st \in {"Ready for Implementation", "Testing Criteria"},
        su \in {s \in Summaries : Includes(s, "Deliverable Criteria:")},
        de \in {d \in Descriptions : hasClaudeMarkers(<<>>, d)},
        L \in LabelSets, rep \in LabelReps }

\* criteria issues whose summary and description carry several keys, or none
KeySummaries == { <<"Deliverable Criteria:", "ABC-12", "PCP1-67">>,
                  <<"Deliverable Criteria:", "PCP1-68", "PCP1-67">>,
                  <<"Deliverable Criteria:", "abc1-3", "ABC-12">>,
                  <<"Deliverable Criteria:", "abc1-3">>,
                  <<"Deliverable Criteria:", "Fix login bug">> }

KeyDescriptions == { <<"*Generated by Claude Automation System*">>,
                     <<"**Original Issue:** PCP1-67",
                       "*Generated by Claude Automation System*">>,
                     <<"Claude Generated", "**Original Issue:** ABC-12",
                       "## Functional Requirements",
                       "*Generated by Claude Automation System*">> }

KeyPayloads ==
    { [webhookEvent |-> "jira:issue_updated", changelog |-> {"status"},
       issue |-> IssueOf("PCP1-68", "Task", st, su, de, {}, "string")] :
        st \in {"Ready for Implementation", "Testing Criteria"},
        su \in KeySummaries, de \in KeyDescriptions }

Payloads == AnyPayloads \cup CriteriaPayloads \cup KeyPayloads

NoImplementation == [type |-> None]
NoEvaluation == [requirementsCoverage |-> 0]
NoScore == [meetsCriteria |-> FALSE, overallScore |-> 0]
NoResponse == [json |-> FALSE]
NoFetch == [labels |-> {}]
NoAnalysis == [sections |-> {}, fallback |-> FALSE]

TrackerFields(p) ==
    IF p.issue = NoIssue
    THEN [summary |-> << >>, description |-> << >>, status |-> None]
    ELSE [summary |-> p.issue.summary, description |-> p.issue.description,
          status |-> p.issue.status]

Idle ==
    /\ classification = None
    /\ result = NoResult
    /\ calls = << >>
    /\ originalKey = None
    /\ highestStage = None
    /\ errorMessage = None
    /\ implementation = NoImplementation
    /\ fetched = NoFetch
    /\ evaluation = NoEvaluation
    /\ finalScore = NoScore
    /\ jiraComments = << >>
    /\ created = << >>
    /\ links = {}
    /\ analysis = NoAnalysis

Init ==
    /\ payload \in Payloads
    /\ pc = "start"
    /\ Idle
    /\ claudeResponse = NoResponse
    /\ jiraLabels = (IF payload.issue = NoIssue THEN {} ELSE payload.issue.labels)
    /\ jiraFields = TrackerFields(payload)
    /\ workItems \in InitialStores
    /\ targetStage = None
    /\ runs = << >>

-----------------------------------------------------------------------------
(* Steps shared by the phase handlers *)

Call(service, operation, ok) ==
    calls' = Append(calls, [service |-> service, operation |-> operation, ok |-> ok])

\* the comments whose content interpolates error.message
errorComments == {"Implementation Generation Failed", "Artifacts Creation Failed",
                  "Automation System Error", "Testing Evaluation - ERROR",
                  "Testing Evaluation System Error", "Claude Analysis Failed"}

\* the fixed sentence of the content that tells the two 'Testing Evaluation - ERROR'
\* comments apart
commentAdvice ==
    CASE pc = "tc_load_failed" ->
             "Please ensure the implementation has been generated first"
      [] pc = "tc_evaluation_error" ->
             "Please check the implementation artifacts and try again"
      [] OTHER -> None

\* jiraApi.addComment(issue.key, formatComment(title, content, footer))
AddComment(title, ok) ==
    /\ calls' = Append(calls, [service |-> "jira", operation |-> "addComment", ok |-> ok,
                               title |-> title,
                               quotes |-> IF title \in errorComments THEN errorMessage
                                          ELSE None,
                               advice |-> commentAdvice])
    /\ jiraComments' = IF ok THEN Append(jiraComments, title) ELSE jiraComments

Return(outcome) == pc' = "done" /\ result' = outcome

\* a comment whose failure is thrown into the enclosing catch block
CommentThenReturn(here, title, outcome, catch) ==
    /\ pc = here
    /\ \E ok \in BOOLEAN :
        /\ AddComment(title, ok)
        /\ IF ok THEN Return(outcome) /\ UNCHANGED errorMessage
           ELSE pc' = catch /\ errorMessage' = "Failed to add comment" /\ UNCHANGED result
    /\ UNCHANGED <<analysis, targetStage, runs, payload, classification, originalKey, highestStage, implementation, fetched,
                   claudeResponse, evaluation, finalScore, jiraLabels, jiraFields,
                   created, links, workItems>>

\* the outer catch of a phase handler: generic comment, then system_error;
\* a failure of that comment leaves the handler and processWebhook rethrows it
CatchAll(here, title) ==
    /\ pc = here
    /\ \E ok \in BOOLEAN :
        /\ AddComment(title, ok)
        /\ Return(IF ok THEN Outcome("system_error", "system_failure") ELSE Thrown)
        /\ errorMessage' = IF ok THEN errorMessage ELSE "Failed to add comment"
    /\ UNCHANGED <<analysis, targetStage, runs, payload, classification, originalKey, highestStage, implementation, fetched,
                   claudeResponse, evaluation, finalScore, jiraLabels, jiraFields,
                   created, links, workItems>>

\* updateStageLabel, first await: getIssue; a failure is swallowed by its catch and
\* the caller continues at `after' (returning `outcome' when the caller ends there)
UpdateStageLabelGet(here, put, after, outcome) ==
    /\ pc = here
    /\ \E ok \in BOOLEAN :
        /\ Call("jira", "getIssue", ok)
        /\ fetched' = IF ok THEN [labels |-> jiraLabels] ELSE fetched
        /\ pc' = IF ok THEN put ELSE after
        /\ result' = IF ok THEN result ELSE outcome
    /\ UNCHANGED <<analysis, targetStage, runs, payload, classification, originalKey, highestStage, errorMessage, implementation,
                   claudeResponse, evaluation, finalScore, jiraLabels, jiraComments,
                   jiraFields, created, links, workItems>>

\* `claude-stage-${newStage}`
newLabel(newStage) ==
    CASE newStage = "analyzed" -> "claude-stage-analyzed"
      [] newStage = "implemented" -> "claude-stage-implemented"
      [] newStage = "tested" -> "claude-stage-tested"

\* updatedLabels taking the stage label off again when the issue already has it
updatedLabels_DropsLabelAlreadyThere(currentLabels, newStage) ==
    IF newLabel(newStage) \in currentLabels
    THEN currentLabels \ stageLabels
    ELSE (currentLabels \ stageLabels) \cup {newLabel(newStage)}

\* updatedLabels without the filter that removes the old stage labels
updatedLabels_KeepsOldStageLabels(currentLabels, newStage) ==
    currentLabels \cup {newLabel(newStage)}

\* updatedLabels keeping nothing but the new stage label
updatedLabels_DropsOtherLabels(currentLabels, newStage) == {newLabel(newStage)}

updatedLabels(currentLabels, newStage) ==
    (currentLabels \ stageLabels) \cup {newLabel(newStage)}

\* updateStageLabel rethrowing a failed label write to the caller of the phase
UpdateStageLabelPut_Rethrows(here, newStage, after, outcome) ==
    /\ pc = here
    /\ \E ok \in BOOLEAN :
        /\ Call("jira", "updateIssue.labels", ok)
        /\ jiraLabels' = IF ok THEN updatedLabels(fetched.labels, newStage) ELSE jiraLabels
        /\ pc' = IF ok THEN after ELSE "done"
        /\ result' = IF ok THEN outcome ELSE Thrown
    /\ UNCHANGED <<analysis, targetStage, runs, payload, classification, originalKey, highestStage, errorMessage,
                   implementation, fetched, claudeResponse, evaluation, finalScore, jiraComments,
                   jiraFields, created, links, workItems>>

\* updateStageLabel, second await: updateIssue({labels}); a failure is swallowed
UpdateStageLabelPut(here, newStage, after, outcome) ==
    /\ pc = here
    /\ \E ok \in BOOLEAN :
        /\ Call("jira", "updateIssue.labels", ok)
        /\ jiraLabels' = IF ok THEN updatedLabels(fetched.labels, newStage) ELSE jiraLabels
    /\ pc' = after
    /\ result' = outcome
    /\ UNCHANGED <<analysis, targetStage, runs, payload, classification, originalKey, highestStage, errorMessage, implementation,
                   fetched, claudeResponse, evaluation, finalScore, jiraComments,
                   jiraFields, created, links, workItems>>

-----------------------------------------------------------------------------
(* processWebhook: validation, classification and the synchronous head of the phase *)

\* processDeliverableCriteria up to its first await
DeliverableHead(issue) ==
    LET key == extractOriginalIssueKey(issue.summary, issue.description)
        stage == getHighestStageCompleted(issue)
        hasForceReimplement == hasOverrideLabel(issue, "reimplement")
    IN IF ~validateClaudeGeneratedCriteria(issue)
       THEN [pc |-> "dc_catch", key |-> None, stage |-> None,
             error |-> "Deliverable criteria must be Claude-generated"]
       ELSE IF key = None
       THEN [pc |-> "dc_catch", key |-> None, stage |-> None,
             error |-> "Could not extract original issue key"]
       ELSE IF stage \in {"implemented", "tested"} /\ ~hasForceReimplement
       THEN [pc |-> "dc_skip", key |-> key, stage |-> stage, error |-> None]
       ELSE [pc |-> "dc_get_original", key |-> key, stage |-> stage, error |-> None]

\* processTestingCriteria up to its first await
TestingHead(issue) ==
    LET key == extractOriginalIssueKey(issue.summary, issue.description)
        stage == getHighestStageCompleted(issue)
        hasForceRetest == hasOverrideLabel(issue, "retest")
    IN IF ~validateClaudeGeneratedCriteria(issue)
       THEN [pc |-> "tc_catch", key |-> None, stage |-> None,
             error |-> "Testing criteria must be Claude-generated"]
       ELSE IF key = None
       THEN [pc |-> "tc_catch", key |-> None, stage |-> None,
             error |-> "Could not extract original issue key"]
       ELSE IF stage = "tested" /\ ~hasForceRetest
       THEN [pc |-> "tc_skip", key |-> key, stage |-> stage, error |-> None]
       ELSE [pc |-> "tc_load", key |-> key, stage |-> stage, error |-> None]

Ignored == Outcome("ignored", None)

processWebhook ==
    /\ pc = "start"
    /\ IF ~isValidWebhookEvent(payload)
       THEN /\ Return(Ignored)
            /\ UNCHANGED <<classification, originalKey, highestStage, errorMessage>>
       ELSE LET class == classifyIssueType(payload)
                head == CASE class = "deliverable_criteria" -> DeliverableHead(payload.issue)
                          [] class = "testing_criteria" -> TestingHead(payload.issue)
                          [] OTHER -> [pc |-> "ii_analyze", key |-> None, stage |-> None,
                                       error |-> None]
            IN /\ classification' = class
               /\ IF class = "ignore"
                  THEN Return(Ignored) /\ UNCHANGED <<originalKey, highestStage, errorMessage>>
                  ELSE /\ pc' = head.pc
                       /\ originalKey' = head.key
                       /\ highestStage' = head.stage
                       /\ errorMessage' = head.error
                       /\ UNCHANGED result
    /\ UNCHANGED <<analysis, targetStage, runs, payload, calls, implementation, fetched, claudeResponse, evaluation,
                   finalScore, jiraLabels, jiraComments, jiraFields, created, links, workItems>>

-----------------------------------------------------------------------------
(* processDeliverableCriteria *)

DcSkipComment ==
    CommentThenReturn("dc_skip", "Implementation Skipped", Outcome("skipped", None), "dc_catch")

\* Step 1: jiraApi.getIssue(originalKey)
DcGetOriginalIssue ==
    /\ pc = "dc_get_original"
    /\ \E ok \in BOOLEAN :
        /\ Call("jira", "getIssue", ok)
        /\ IF ok THEN pc' = "dc_generate" /\ UNCHANGED errorMessage
           ELSE pc' = "dc_catch" /\ errorMessage' = "Failed to fetch issue"
    /\ UNCHANGED <<analysis, targetStage, runs, payload, classification, result, originalKey, highestStage, implementation, fetched,
                   claudeResponse, evaluation, finalScore, jiraLabels, jiraComments,
                   jiraFields, created, links, workItems>>

\* Step 3: implementationAgent.generateImplementation
DcGenerateImplementation ==
    /\ pc = "dc_generate"
    /\ \/ \E response \in ImplementationResponses, tests \in BOOLEAN, documentation \in BOOLEAN :
            LET parsed == parseImplementationResponse(response)
            IN /\ claudeResponse' = response
               /\ IF parsed = ParseError
                  THEN /\ Call("claude", "generateImplementation", FALSE)
                       /\ errorMessage' = "Implementation generation failed: Failed to parse Claude implementation response"
                       /\ pc' = "dc_generation_failed"
                       /\ UNCHANGED implementation
                  ELSE /\ Call("claude", "generateImplementation", TRUE)
                       /\ implementation' = [type |-> parsed.type,
                                             supportingFiles |-> parsed.supportingFiles,
                                             hasTests |-> tests,
                                             hasDocumentation |-> documentation]
                       /\ pc' = "dc_artifacts"
                       /\ UNCHANGED errorMessage
       \/ /\ Call("claude", "generateImplementation", FALSE)
          /\ errorMessage' = "Implementation generation failed"
          /\ pc' = "dc_generation_failed"
          /\ UNCHANGED <<implementation, claudeResponse>>
    /\ UNCHANGED <<analysis, targetStage, runs, payload, classification, result, originalKey,
                   highestStage, fetched, evaluation, finalScore, jiraLabels, jiraComments,
                   jiraFields, created, links, workItems>>

\* the adapter's failure reported by the generic error comment as system_error
DcGenerationFailedComment_AsSystemError ==
    CommentThenReturn("dc_generation_failed", "Automation System Error",
                      Outcome("system_error", "system_failure"), "dc_catch")

DcGenerationFailedComment ==
    CommentThenReturn("dc_generation_failed", "Implementation Generation Failed",
                      Outcome("implementation_failed", "claude_generation_failure"), "dc_catch")

\* Step 4: createImplementationArtifacts; written counts the files on disk when it stops
DcCreateArtifacts ==
    /\ pc = "dc_artifacts"
    /\ LET files == ArtifactFiles(implementation)
       IN \E written \in 0..Len(files), ok \in BOOLEAN :
            /\ ~ok \/ written = Len(files)
            /\ Call("fs", "createImplementationArtifacts", ok)
            /\ workItems' = [workItems EXCEPT ![originalKey].implementation =
                                 WriteFiles(@, files, written)]
            /\ IF ok THEN pc' = "dc_success" /\ UNCHANGED errorMessage
               ELSE /\ pc' = "dc_artifacts_failed"
                    /\ errorMessage' = "Failed to create implementation artifacts"
    /\ UNCHANGED <<analysis, targetStage, runs, payload, classification, result, originalKey, highestStage, implementation, fetched,
                   claudeResponse, evaluation, finalScore, jiraLabels, jiraComments,
                   jiraFields, created, links>>

\* artifacts_failed returned without the generated implementation
DcArtifactsFailedComment_DropsDeliverable ==
    CommentThenReturn("dc_artifacts_failed", "Artifacts Creation Failed",
                      Outcome("artifacts_failed", "artifacts_creation_failure"), "dc_catch")

DcArtifactsFailedComment ==
    CommentThenReturn("dc_artifacts_failed", "Artifacts Creation Failed",
                      [action |-> "artifacts_failed", errorType |-> "artifacts_creation_failure",
                       implementation |-> implementation], "dc_catch")

\* Step 5 going on to the stage advancement whether or not the comment was posted
DcSuccessComment_IgnoresCommentFailure ==
    /\ pc = "dc_success"
    /\ \E ok \in BOOLEAN : AddComment("Implementation Generated", ok)
    /\ pc' = "dc_stage_get"
    /\ UNCHANGED <<analysis, targetStage, runs, payload, classification, result, originalKey,
                   highestStage, errorMessage, implementation, fetched, claudeResponse,
                   evaluation, finalScore, jiraLabels, jiraFields, created, links, workItems>>

\* Step 5: success comment
DcSuccessComment ==
    /\ pc = "dc_success"
    /\ \E ok \in BOOLEAN :
        /\ AddComment("Implementation Generated", ok)
        /\ IF ok THEN pc' = "dc_stage_get" /\ UNCHANGED errorMessage
           ELSE pc' = "dc_catch" /\ errorMessage' = "Failed to add comment"
    /\ UNCHANGED <<analysis, targetStage, runs, payload, classification, result, originalKey, highestStage, implementation, fetched,
                   claudeResponse, evaluation, finalScore, jiraLabels, jiraFields,
                   created, links, workItems>>

\* Step 6: updateStageLabel(issue.key, 'implemented')
DcStageGet ==
    UpdateStageLabelGet("dc_stage_get", "dc_stage_put", "done",
                        Outcome("implementation_generated", None))
DcStagePut ==
    UpdateStageLabelPut("dc_stage_put", "implemented", "done",
                        Outcome("implementation_generated", None))

DcCatch == CatchAll("dc_catch", "Automation System Error")

processDeliverableCriteria ==
    \/ DcSkipComment \/ DcGetOriginalIssue \/ DcGenerateImplementation
    \/ DcGenerationFailedComment \/ DcCreateArtifacts \/ DcArtifactsFailedComment
    \/ DcSuccessComment \/ DcStageGet \/ DcStagePut \/ DcCatch

-----------------------------------------------------------------------------
(* processTestingCriteria *)

TcSkipComment ==
    CommentThenReturn("tc_skip", "Testing Skipped", Outcome("skipped", None), "tc_catch")

\* Step 1: loadImplementationResult(originalKey)
TcLoadImplementation ==
    /\ pc = "tc_load"
    /\ LET dir == workItems[originalKey].implementation
       IN \E ok \in BOOLEAN :
            /\ ok => CanLoad(dir)
            /\ Call("fs", "loadImplementationResult", ok)
            /\ IF ok
               THEN /\ implementation' = [type |-> LoadedType(dir), supportingFiles |-> {},
                                          hasTests |-> FALSE, hasDocumentation |-> FALSE]
                    /\ pc' = "tc_evaluate"
                    /\ UNCHANGED errorMessage
               ELSE /\ errorMessage' = "Failed to load implementation"
                    /\ pc' = "tc_load_failed"
                    /\ UNCHANGED implementation
    /\ UNCHANGED <<analysis, targetStage, runs, payload, classification, result, originalKey, highestStage, fetched, claudeResponse,
                   evaluation, finalScore, jiraLabels, jiraComments, jiraFields, created,
                   links, workItems>>

TcLoadFailedComment ==
    CommentThenReturn("tc_load_failed", "Testing Evaluation - ERROR",
                      Outcome("evaluation_failed", "implementation_not_found"), "tc_catch")

\* Step 2: testingEvaluator.evaluateImplementation (artifact read, model call, parse, score)
TcEvaluateImplementation ==
    /\ pc = "tc_evaluate"
    /\ \/ \E response \in SampleResponses :
            LET parsed == parseEvaluationResponse(response)
            IN /\ claudeResponse' = response
               /\ IF parsed = ParseError
                  THEN /\ Call("claude", "evaluateImplementation", FALSE)
                       /\ errorMessage' = "Implementation evaluation failed: Failed to parse Claude evaluation response"
                       /\ pc' = "tc_evaluation_error"
                       /\ UNCHANGED <<evaluation, finalScore>>
                  ELSE /\ Call("claude", "evaluateImplementation", TRUE)
                       /\ evaluation' = parsed
                       /\ finalScore' = calculateFinalScore(parsed)
                       /\ pc' = "tc_save"
                       /\ UNCHANGED errorMessage
       \/ /\ Call("claude", "evaluateImplementation", FALSE)
          /\ errorMessage' = "Implementation evaluation failed"
          /\ pc' = "tc_evaluation_error"
          /\ UNCHANGED <<evaluation, finalScore, claudeResponse>>
    /\ UNCHANGED <<analysis, targetStage, runs, payload, classification, result, originalKey,
                   highestStage, implementation, fetched, jiraLabels, jiraComments, jiraFields,
                   created, links, workItems>>

\* the adapter's failure returned in the shape of a verdict failure
TcEvaluationErrorComment_AsVerdict ==
    CommentThenReturn("tc_evaluation_error", "Testing Evaluation - ERROR",
                      [action |-> "evaluation_failed", errorType |-> None,
                       evaluationResult |-> NoEvaluation, failureReasons |-> << >>],
                      "tc_catch")

TcEvaluationErrorComment ==
    CommentThenReturn("tc_evaluation_error", "Testing Evaluation - ERROR",
                      Outcome("evaluation_failed", "claude_evaluation_failure"), "tc_catch")

EvaluationFiles ==
    <<[name |-> "evaluation-results.json", content |-> "evaluationResult"],
      [name |-> "evaluation-summary.md", content |-> "summaryReport"]>>

\* Step 3 with a failed save thrown into the catch block of the phase
TcSaveEvaluation_FailureIsFatal ==
    /\ pc = "tc_save"
    /\ \E written \in 0..Len(EvaluationFiles), ok \in BOOLEAN :
        /\ ok <=> written = Len(EvaluationFiles)
        /\ Call("fs", "saveEvaluationResults", ok)
        /\ workItems' = [workItems EXCEPT ![originalKey].evaluation =
                             WriteFiles(@, EvaluationFiles, written)]
        /\ pc' = IF ok THEN "tc_stage_get" ELSE "tc_catch"
        /\ errorMessage' = IF ok THEN errorMessage ELSE "Failed to save evaluation results"
    /\ UNCHANGED <<analysis, targetStage, runs, payload, classification, result, originalKey,
                   highestStage, implementation, fetched, claudeResponse, evaluation,
                   finalScore, jiraLabels, jiraComments, jiraFields, created, links>>

\* Step 3: saveEvaluationResults; a failure is logged and the phase continues
TcSaveEvaluation ==
    /\ pc = "tc_save"
    /\ \E written \in 0..Len(EvaluationFiles), ok \in BOOLEAN :
        /\ ok <=> written = Len(EvaluationFiles)
        /\ Call("fs", "saveEvaluationResults", ok)
        /\ workItems' = [workItems EXCEPT ![originalKey].evaluation =
                             WriteFiles(@, EvaluationFiles, written)]
    /\ pc' = "tc_stage_get"
    /\ UNCHANGED <<analysis, targetStage, runs, payload, classification, result, originalKey, highestStage, errorMessage, implementation,
                   fetched, claudeResponse, evaluation, finalScore, jiraLabels, jiraComments,
                   jiraFields, created, links>>

\* Step 4: updateStageLabel(issue.key, 'tested')
\* Step 4 advancing the stage only after a passing evaluation
TcStageGet_OnlyOnPass ==
    IF finalScore.meetsCriteria
    THEN UpdateStageLabelGet("tc_stage_get", "tc_stage_put", "tc_verdict", NoResult)
    ELSE /\ pc = "tc_stage_get"
         /\ pc' = "tc_verdict"
         /\ UNCHANGED <<analysis, targetStage, runs, payload, classification, result, calls, originalKey,
                        highestStage, errorMessage, implementation, fetched, claudeResponse,
                        evaluation, finalScore, jiraLabels, jiraComments, jiraFields, created,
                        links, workItems>>

TcStageGet == UpdateStageLabelGet("tc_stage_get", "tc_stage_put", "tc_verdict", NoResult)
TcStagePut == UpdateStageLabelPut("tc_stage_put", "tested", "tc_verdict", NoResult)

\* what evaluateImplementation returned
evaluationResult ==
    [implementationType |-> implementation.type, evaluation |-> evaluation,
     finalScore |-> finalScore]

\* evaluationResult.recommendation.criticalIssues || []
IsCritical(severity) == severity = "CRITICAL"
failureReasons == SelectSeq(evaluation.errors, IsCritical)

VerdictFailed ==
    [action |-> "evaluation_failed", errorType |-> None,
     evaluationResult |-> evaluationResult, failureReasons |-> failureReasons]

\* Step 5: the PASSED or FAILED comment
TcVerdictComment ==
    /\ pc = "tc_verdict"
    /\ \E ok \in BOOLEAN :
        /\ AddComment(IF finalScore.meetsCriteria THEN "Testing Evaluation - PASSED"
                      ELSE "Testing Evaluation - FAILED", ok)
        /\ IF ~ok
           THEN pc' = "tc_catch" /\ errorMessage' = "Failed to add comment" /\ UNCHANGED result
           ELSE IF finalScore.meetsCriteria
           THEN pc' = "tc_transitions" /\ UNCHANGED <<errorMessage, result>>
           ELSE Return(VerdictFailed) /\ UNCHANGED errorMessage
    /\ UNCHANGED <<analysis, targetStage, runs, payload, classification, originalKey, highestStage, implementation, fetched,
                   claudeResponse, evaluation, finalScore, jiraLabels, jiraFields,
                   created, links, workItems>>

\* getCompletionStatus naming an actionable status for code deliverables
getCompletionStatus_ReopensTesting(type) ==
    CASE type = "code" -> "Testing Criteria"
      [] type = "documentation" -> "Documentation Complete"
      [] type = "analysis" -> "Analysis Complete"
      [] type = "process" -> "Process Complete"
      [] OTHER -> "Implementation Complete"

getCompletionStatus(type) ==
    CASE type = "code" -> "Code Complete"
      [] type = "documentation" -> "Documentation Complete"
      [] type = "analysis" -> "Analysis Complete"
      [] type = "process" -> "Process Complete"
      [] OTHER -> "Implementation Complete"

Passed == Outcome("evaluation_passed", None)

\* updateToCompletionStatus: getAvailableTransitions and the lookup by name
TcGetTransitions ==
    /\ pc = "tc_transitions"
    /\ \E ok \in BOOLEAN, available \in BOOLEAN :
        /\ ~ok => ~available
        /\ calls' = Append(calls, [service |-> "jira", operation |-> "getAvailableTransitions",
                                   ok |-> ok, found |-> available])
        /\ pc' = IF ~ok THEN "tc_completion_comment"
                 ELSE IF available THEN "tc_transition" ELSE "tc_get_issue"
    /\ UNCHANGED <<analysis, targetStage, runs, payload, classification, result, originalKey, highestStage, errorMessage, implementation,
                   fetched, claudeResponse, evaluation, finalScore, jiraLabels, jiraComments,
                   jiraFields, created, links, workItems>>

\* a failed transition thrown into the catch block of the phase
TcTransitionIssue_FailureIsFatal ==
    /\ pc = "tc_transition"
    /\ \E ok \in BOOLEAN :
        /\ Call("jira", "transitionIssue", ok)
        /\ IF ok
           THEN /\ jiraFields' = [jiraFields EXCEPT
                                    !.status = getCompletionStatus(implementation.type)]
                /\ Return(Passed)
           ELSE pc' = "tc_catch" /\ UNCHANGED <<jiraFields, result>>
    /\ UNCHANGED <<analysis, targetStage, runs, payload, classification, originalKey,
                   highestStage, errorMessage, implementation, fetched, claudeResponse,
                   evaluation, finalScore, jiraLabels, jiraComments, created, links, workItems>>

TcTransitionIssue ==
    /\ pc = "tc_transition"
    /\ \E ok \in BOOLEAN :
        /\ Call("jira", "transitionIssue", ok)
        /\ IF ok
           THEN /\ jiraFields' = [jiraFields EXCEPT
                                    !.status = getCompletionStatus(implementation.type)]
                /\ Return(Passed)
           ELSE pc' = "tc_completion_comment" /\ UNCHANGED <<jiraFields, result>>
    /\ UNCHANGED <<analysis, targetStage, runs, payload, classification, originalKey, highestStage, errorMessage, implementation,
                   fetched, claudeResponse, evaluation, finalScore, jiraLabels, jiraComments,
                   created, links, workItems>>

TcGetIssue ==
    /\ pc = "tc_get_issue"
    /\ \E ok \in BOOLEAN :
        /\ Call("jira", "getIssue", ok)
        /\ fetched' = IF ok THEN [labels |-> jiraLabels, summary |-> jiraFields.summary,
                                  description |-> jiraFields.description]
                      ELSE fetched
        /\ pc' = IF ok THEN "tc_update_summary" ELSE "tc_completion_comment"
    /\ UNCHANGED <<analysis, targetStage, runs, payload, classification, result, originalKey, highestStage, errorMessage, implementation,
                   claudeResponse, evaluation, finalScore, jiraLabels, jiraComments,
                   jiraFields, created, links, workItems>>

TcUpdateSummary ==
    /\ pc = "tc_update_summary"
    /\ \E ok \in BOOLEAN :
        /\ Call("jira", "updateIssue.summary", ok)
        /\ IF ok
           THEN /\ jiraFields' = [jiraFields EXCEPT
                       !.summary = <<getCompletionStatus(implementation.type)>> \o fetched.summary,
                       !.description = fetched.description
                             \o <<"**COMPLETED**", "*Updated by Claude Testing Evaluation System*">>]
                /\ Return(Passed)
           ELSE pc' = "tc_completion_comment" /\ UNCHANGED <<jiraFields, result>>
    /\ UNCHANGED <<analysis, targetStage, runs, payload, classification, originalKey, highestStage, errorMessage, implementation,
                   fetched, claudeResponse, evaluation, finalScore, jiraLabels, jiraComments,
                   created, links, workItems>>

TcCompletionComment ==
    CommentThenReturn("tc_completion_comment", "Implementation Complete", Passed, "tc_catch")

TcCatch == CatchAll("tc_catch", "Testing Evaluation System Error")

processTestingCriteria ==
    \/ TcSkipComment \/ TcLoadImplementation \/ TcLoadFailedComment
    \/ TcEvaluateImplementation \/ TcEvaluationErrorComment \/ TcSaveEvaluation
    \/ TcStageGet \/ TcStagePut \/ TcVerdictComment \/ TcGetTransitions
    \/ TcTransitionIssue \/ TcGetIssue \/ TcUpdateSummary \/ TcCompletionComment \/ TcCatch

-----------------------------------------------------------------------------
(* processInitialInquiry *)

\* issue.key.split('-')[0]
ProjectKey(key) == IF key \in {"PCP1-67", "PCP1-68"} THEN "PCP1" ELSE "ABC"
\* the key the tracker gives the next issue it creates
NewIssueKey == "PCP1-69"

claudeMarker == <<"---", "*Touched by Claude*", "**Analysis Summary:**">>

CriteriaSummary(issue) == <<"Deliverable Criteria:", issue.key, "-">> \o issue.summary

CriteriaDescription(issue) ==
    <<"Claude Generated", "**Original Issue:**", issue.key, "-">> \o issue.summary
    \o <<"## Functional Requirements", "## Technical Requirements", "## Acceptance Criteria",
         "## Validation Tests", "## Technical Approach", "## Definition of Done",
         "## Estimated Effort", "---", "*Generated by Claude Automation System*",
         "**Instructions:**">>

\* the message of reading a property of a section the analysis lacks
TypeError == "Cannot read properties of undefined"

IiFail(message) == pc' = "ii_error" /\ errorMessage' = message

\* Step 1: requirementsAnalyzer.analyzeRequirements
IiAnalyzeRequirements ==
    /\ pc = "ii_analyze"
    /\ \/ \E response \in AnalysisResponses :
            /\ Call("claude", "analyzeRequirements", TRUE)
            /\ claudeResponse' = response
            /\ analysis' = parseAnalysisResponse(response)
            \* markIssueAsTouchedByClaude builds its marker before its first call
            /\ IF "estimatedEffort" \in analysis'.sections
               THEN pc' = "ii_mark_get" /\ UNCHANGED errorMessage
               ELSE IiFail(TypeError)
       \/ /\ Call("claude", "analyzeRequirements", FALSE)
          /\ IiFail("Requirements analysis failed")
          /\ UNCHANGED <<analysis, claudeResponse>>
    /\ UNCHANGED <<targetStage, runs, payload, classification, result, originalKey,
                   highestStage, implementation, fetched, evaluation, finalScore, jiraLabels,
                   jiraComments, jiraFields, created, links, workItems>>

\* Step 2: markIssueAsTouchedByClaude, getIssue
IiMarkGet ==
    /\ pc = "ii_mark_get"
    /\ \E ok \in BOOLEAN :
        /\ Call("jira", "getIssue", ok)
        /\ IF ok
           THEN /\ fetched' = [labels |-> jiraLabels, summary |-> jiraFields.summary,
                               description |-> jiraFields.description]
                /\ pc' = "ii_mark_put"
                /\ UNCHANGED errorMessage
           ELSE IiFail("Failed to fetch issue") /\ UNCHANGED fetched
    /\ UNCHANGED <<analysis, targetStage, runs, payload, classification, result, originalKey, highestStage, implementation,
                   claudeResponse, evaluation, finalScore, jiraLabels, jiraComments,
                   jiraFields, created, links, workItems>>

\* markIssueAsTouchedByClaude writing the marker in place of the description
IiMarkPut_ReplacesDescription ==
    /\ pc = "ii_mark_put"
    /\ \E ok \in BOOLEAN :
        /\ Call("jira", "updateIssue.description", ok)
        /\ IF ok
           THEN /\ jiraFields' = [jiraFields EXCEPT !.description = claudeMarker]
                /\ IF "technicalApproach" \in analysis.sections
                   THEN pc' = "ii_create" /\ UNCHANGED errorMessage
                   ELSE IiFail(TypeError)
           ELSE IiFail("Failed to update issue") /\ UNCHANGED jiraFields
    /\ UNCHANGED <<analysis, targetStage, runs, payload, classification, result, originalKey,
                   highestStage, implementation, fetched, claudeResponse, evaluation,
                   finalScore, jiraLabels, jiraComments, created, links, workItems>>

\* Step 2: markIssueAsTouchedByClaude, updateIssue({description})
IiMarkPut ==
    /\ pc = "ii_mark_put"
    /\ \E ok \in BOOLEAN :
        /\ Call("jira", "updateIssue.description", ok)
        /\ IF ok
           THEN /\ jiraFields' = [jiraFields EXCEPT
                                    !.description = fetched.description \o claudeMarker]
                \* createDeliverableCriteriaIssue builds its description before its call
                /\ IF "technicalApproach" \in analysis.sections
                   THEN pc' = "ii_create" /\ UNCHANGED errorMessage
                   ELSE IiFail(TypeError)
           ELSE IiFail("Failed to update issue") /\ UNCHANGED jiraFields
    /\ UNCHANGED <<analysis, targetStage, runs, payload, classification, result, originalKey, highestStage, implementation, fetched,
                   claudeResponse, evaluation, finalScore, jiraLabels, jiraComments,
                   created, links, workItems>>

\* Step 3: createDeliverableCriteriaIssue
IiCreateCriteriaIssue ==
    /\ pc = "ii_create"
    /\ \E ok \in BOOLEAN :
        /\ Call("jira", "createIssue", ok)
        /\ IF ok
           THEN /\ created' = Append(created,
                      [key |-> NewIssueKey, project |-> ProjectKey(payload.issue.key),
                       issuetype |-> "Task", summary |-> CriteriaSummary(payload.issue),
                       description |-> CriteriaDescription(payload.issue)])
                /\ pc' = "ii_link"
                /\ UNCHANGED errorMessage
           ELSE IiFail("Failed to create issue") /\ UNCHANGED created
    /\ UNCHANGED <<analysis, targetStage, runs, payload, classification, result, originalKey, highestStage, implementation, fetched,
                   claudeResponse, evaluation, finalScore, jiraLabels, jiraComments,
                   jiraFields, links, workItems>>

\* Step 4: linkIssues(issue.key, criteriaIssue.key, 'Relates')
IiLinkIssues ==
    /\ pc = "ii_link"
    /\ \E ok \in BOOLEAN :
        /\ Call("jira", "linkIssues", ok)
        /\ IF ok
           THEN /\ links' = links \cup {<<payload.issue.key, created[Len(created)].key>>}
                /\ Return([action |-> "requirements_analyzed", errorType |-> None,
                            originalIssue |-> payload.issue.key,
                            criteriaIssue |-> created[Len(created)].key])
                /\ UNCHANGED errorMessage
           ELSE IiFail("Failed to link issues") /\ UNCHANGED <<links, result>>
    /\ UNCHANGED <<analysis, targetStage, runs, payload, classification, originalKey, highestStage, implementation, fetched,
                   claudeResponse, evaluation, finalScore, jiraLabels, jiraComments,
                   jiraFields, created, workItems>>

\* the catch block letting a failed error comment replace the error it reports
IiErrorComment_CommentErrorReplaces ==
    /\ pc = "ii_error"
    /\ \E ok \in BOOLEAN :
        /\ AddComment("Claude Analysis Failed", ok)
        /\ errorMessage' = IF ok THEN errorMessage ELSE "Failed to add comment"
    /\ Return(Thrown)
    /\ UNCHANGED <<analysis, targetStage, runs, payload, classification, originalKey, highestStage,
                   implementation, fetched, claudeResponse, evaluation, finalScore, jiraLabels,
                   jiraFields, created, links, workItems>>

\* the catch block: error comment (its own failure swallowed), then rethrow;
\* processWebhook's catch wraps the error and throws it to the caller
IiErrorComment ==
    /\ pc = "ii_error"
    /\ \E ok \in BOOLEAN : AddComment("Claude Analysis Failed", ok)
    /\ Return(Thrown)
    /\ UNCHANGED <<analysis, targetStage, runs, payload, classification, originalKey, highestStage, errorMessage, implementation, fetched,
                   claudeResponse, evaluation, finalScore, jiraLabels, jiraFields,
                   created, links, workItems>>

processInitialInquiry ==
    \/ IiAnalyzeRequirements \/ IiMarkGet \/ IiMarkPut \/ IiCreateCriteriaIssue
    \/ IiLinkIssues \/ IiErrorComment

-----------------------------------------------------------------------------
(* The orchestrator: one delivery *)

Next ==
    \/ processWebhook
    \/ processInitialInquiry
    \/ processDeliverableCriteria
    \/ processTestingCriteria

Spec == Init /\ [][Next]_vars

-----------------------------------------------------------------------------
(* The evaluation adapter on its own: every response shape through parse and score *)

InitScore ==
    /\ payload \in {p \in AnyPayloads : p.issue = NoIssue /\ p.changelog = NoChangelog
                                        /\ p.webhookEvent = "jira:issue_updated"}
    /\ pc = "parse"
    /\ Idle
    /\ claudeResponse \in Responses
    /\ jiraLabels = {}
    /\ jiraFields = TrackerFields(payload)
    /\ workItems = EmptyStore
    /\ targetStage = None
    /\ runs = << >>

ParseEvaluationResponse ==
    /\ pc = "parse"
    /\ LET parsed == parseEvaluationResponse(claudeResponse)
       IN IF parsed = ParseError
          THEN /\ pc' = "parse_error"
               /\ errorMessage' = "Failed to parse Claude evaluation response"
               /\ UNCHANGED evaluation
          ELSE /\ pc' = "score"
               /\ evaluation' = parsed
               /\ UNCHANGED errorMessage
    /\ UNCHANGED <<analysis, targetStage, runs, payload, classification, result, calls, originalKey, highestStage, implementation, fetched,
                   claudeResponse, finalScore, jiraLabels, jiraComments, jiraFields,
                   created, links, workItems>>

CalculateFinalScore ==
    /\ pc = "score"
    /\ finalScore' = calculateFinalScore(evaluation)
    /\ pc' = "scored"
    /\ UNCHANGED <<analysis, targetStage, runs, payload, classification, result, calls, originalKey, highestStage, errorMessage,
                   implementation, fetched, claudeResponse, evaluation, jiraLabels,
                   jiraComments, jiraFields, created, links, workItems>>

NextScore == ParseEvaluationResponse \/ CalculateFinalScore

SpecScore == InitScore /\ [][NextScore]_vars

-----------------------------------------------------------------------------
(* updateStageLabel on its own: repeated calls with one target stage *)

\* largest number of updateStageLabel calls made in a row
MaxAdvances == 3

Stages == {"analyzed", "implemented", "tested"}

\* the criteria issue the calls are made for, with any label set
AdvancePayloads ==
    {p \in CriteriaPayloads :
        /\ p.issue.status = "Testing Criteria"
        /\ p.issue.summary = <<"Deliverable Criteria:", "PCP1-67", "-", "Fix login bug">>
        /\ p.issue.description = <<"*Generated by Claude Automation System*">>}

InitAdvance ==
    /\ payload \in AdvancePayloads
    /\ pc = "advance_get"
    /\ Idle
    /\ claudeResponse = NoResponse
    /\ jiraLabels = payload.issue.labels
    /\ jiraFields = TrackerFields(payload)
    /\ workItems = EmptyStore
    /\ targetStage \in Stages
    /\ runs = << >>

CallsOf(operation) == {i \in 1..Len(calls) : calls[i].operation = operation}

\* updateStageLabel(issue.key, targetStage): the label read
AdvanceGet ==
    /\ Cardinality(CallsOf("getIssue")) < MaxAdvances
    /\ UpdateStageLabelGet("advance_get", "advance_put", "advance_get", NoResult)

\* updateStageLabel(issue.key, targetStage): the label write
AdvancePut == UpdateStageLabelPut("advance_put", targetStage, "advance_get", NoResult)

NextAdvance == AdvanceGet \/ AdvancePut

SpecAdvance == InitAdvance /\ [][NextAdvance]_vars

-----------------------------------------------------------------------------
(* Concurrent deliveries for one criteria issue, as far as they touch its labels *)

\* number of deliveries that can be in progress at the same time
MaxRuns == 2

Runs == 1..MaxRuns

IdleRun == [pc |-> "idle", newStage |-> None, fetched |-> {}]

\* the criteria issue as the tracker holds it: at most one stage label
TrackedIssues ==
    {p \in AdvancePayloads :
        /\ p.issue.labelRep = "string"
        /\ Cardinality(p.issue.labels \cap stageLabels) <= 1}

InitRuns ==
    /\ payload \in TrackedIssues
    /\ pc = "runs"
    /\ Idle
    /\ claudeResponse = NoResponse
    /\ jiraLabels = payload.issue.labels
    /\ jiraFields = TrackerFields(payload)
    /\ workItems = EmptyStore
    /\ targetStage = None
    /\ runs = [r \in Runs |-> IdleRun]

\* what the deliveries leave alone: the issue's other fields and the single-run state
untouchedByRuns ==
    <<analysis, targetStage, payload, pc, classification, result, calls, originalKey, highestStage,
      errorMessage, implementation, fetched, claudeResponse, evaluation, finalScore,
      jiraComments, jiraFields, created, links, workItems>>

\* the payload of a status-change event: the issue with the labels it has now
Delivered(status, rep) ==
    [payload EXCEPT !.issue.status = status,
                    !.issue.labels = jiraLabels,
                    !.issue.labelRep = rep]

\* processWebhook and the phase handler up to the first await of a new delivery
RunDeliver(r) ==
    /\ runs[r].pc = "idle"
    /\ \E status \in {"Ready for Implementation", "Testing Criteria"}, rep \in LabelReps :
         LET p == Delivered(status, rep)
             class == classifyIssueType(p)
             head == IF class = "deliverable_criteria" THEN DeliverableHead(p.issue)
                     ELSE TestingHead(p.issue)
         IN /\ isValidWebhookEvent(p)
            /\ class \in {"deliverable_criteria", "testing_criteria"}
            /\ runs' = [runs EXCEPT ![r] =
                   [pc |-> IF head.pc \in {"dc_skip", "tc_skip"} THEN "skip"
                           ELSE IF head.pc \in {"dc_catch", "tc_catch"} THEN "catch"
                           ELSE "work",
                    newStage |-> IF class = "deliverable_criteria" THEN "implemented"
                                 ELSE "tested",
                    fetched |-> {}]]
    /\ UNCHANGED <<jiraLabels, untouchedByRuns>>

\* the skip comment or the generic error comment, and the return
RunReturn(r) ==
    /\ runs[r].pc \in {"skip", "catch"}
    /\ runs' = [runs EXCEPT ![r] = IdleRun]
    /\ UNCHANGED <<jiraLabels, untouchedByRuns>>

\* steps 1 to 5 of the deliverable phase, steps 1 to 3 of the testing phase:
\* either one of them fails and the run ends, or the run reaches updateStageLabel
RunWork(r) ==
    /\ runs[r].pc = "work"
    /\ \E ok \in BOOLEAN :
         runs' = [runs EXCEPT ![r] = IF ok THEN [@ EXCEPT !.pc = "stage_get"] ELSE IdleRun]
    /\ UNCHANGED <<jiraLabels, untouchedByRuns>>

\* updateStageLabel, the label read of run r
RunStageGet(r) ==
    /\ runs[r].pc = "stage_get"
    /\ \E ok \in BOOLEAN :
         runs' = [runs EXCEPT ![r] =
                    IF ok THEN [@ EXCEPT !.pc = "stage_put", !.fetched = jiraLabels]
                    ELSE IdleRun]
    /\ UNCHANGED <<jiraLabels, untouchedByRuns>>

\* updateStageLabel, the label write of run r, and the rest of the run
RunStagePut(r) ==
    /\ runs[r].pc = "stage_put"
    /\ \E ok \in BOOLEAN :
         jiraLabels' = IF ok THEN updatedLabels(runs[r].fetched, runs[r].newStage)
                       ELSE jiraLabels
    /\ runs' = [runs EXCEPT ![r] = IdleRun]
    /\ UNCHANGED untouchedByRuns

NextRuns ==
    \E r \in Runs :
        RunDeliver(r) \/ RunReturn(r) \/ RunWork(r) \/ RunStageGet(r) \/ RunStagePut(r)

SpecRuns == InitRuns /\ [][NextRuns]_vars

\* the labels people put on an issue for their own use
HumanLabels == Labels \ (stageLabels \cup overrideLabels)

\* another writer of the issue's labels: a person adding a label that is no stage tag
HumanAddsLabel ==
    /\ \E label \in HumanLabels :
         /\ label \notin jiraLabels
         /\ jiraLabels' = jiraLabels \cup {label}
    /\ UNCHANGED <<runs, untouchedByRuns>>

NextWriters == NextRuns \/ HumanAddsLabel

SpecWriters == InitRuns /\ [][NextWriters]_vars

-----------------------------------------------------------------------------
(* Deliveries of one criteria issue racing through processDeliverableCriteria *)

\* the deliverable types the racing runs generate
RaceTypes == {"code", "documentation"}

\* the criteria issue of the race as a delivery carries it: the labels it has now
RaceIssue(rep) ==
    IssueOf("PCP1-68", "Task", "Ready for Implementation",
            <<"Deliverable Criteria:", "PCP1-67", "-", "Fix login bug">>,
            <<"*Generated by Claude Automation System*">>, jiraLabels, rep)

RaceKey == "PCP1-67"

IdleRace == [pc |-> "idle", stage |-> None, rep |-> None, type |-> None, written |-> 0,
             fetched |-> {}, result |-> None, stageWritten |-> FALSE]

RaceFiles(type) ==
    ArtifactFiles([type |-> type, supportingFiles |-> {}, hasTests |-> FALSE,
                   hasDocumentation |-> FALSE])

InitRace ==
    /\ payload = [webhookEvent |-> "jira:issue_updated", changelog |-> {"status"},
                  issue |-> IssueOf("PCP1-68", "Task", "Ready for Implementation",
                                    <<"Deliverable Criteria:", "PCP1-67", "-", "Fix login bug">>,
                                    <<"*Generated by Claude Automation System*">>, {}, "string")]
    /\ pc = "race"
    /\ Idle
    /\ claudeResponse = NoResponse
    /\ jiraLabels = {}
    /\ jiraFields = TrackerFields(payload)
    /\ workItems = EmptyStore
    /\ targetStage = None
    /\ runs = [r \in Runs |-> IdleRace]

\* what the racing runs leave alone
untouchedByRace ==
    <<analysis, targetStage, payload, pc, classification, result, originalKey, highestStage,
      errorMessage, implementation, fetched, claudeResponse, evaluation, finalScore,
      jiraComments, jiraFields, created, links>>

Finish(r, outcome) == runs' = [runs EXCEPT ![r].pc = "done", ![r].result = outcome]

\* a delivery whose guard also looks at the runs in progress
RaceDeliver_Exclusive(r) ==
    /\ runs[r].pc = "idle"
    /\ r > 1 => runs[r-1].pc # "idle"
    /\ \E rep \in LabelReps :
         LET head == DeliverableHead(RaceIssue(rep))
             busy == \E o \in Runs : runs[o].pc \notin {"idle", "done"}
         IN runs' = [runs EXCEPT ![r].pc = IF busy THEN "dc_skip" ELSE head.pc,
                                 ![r].stage = head.stage,
                                 ![r].rep = rep]
    /\ UNCHANGED <<jiraLabels, workItems, calls, untouchedByRace>>

\* processWebhook and processDeliverableCriteria up to the first await; deliveries
\* are numbered in the order they arrive
RaceDeliver(r) ==
    /\ runs[r].pc = "idle"
    /\ r > 1 => runs[r-1].pc # "idle"
    /\ \E rep \in LabelReps :
         LET head == DeliverableHead(RaceIssue(rep))
         IN runs' = [runs EXCEPT ![r].pc = head.pc,
                                 ![r].stage = head.stage,
                                 ![r].rep = rep]
    /\ UNCHANGED <<jiraLabels, workItems, calls, untouchedByRace>>

\* the skip comment and the return
RaceSkip(r) ==
    /\ runs[r].pc = "dc_skip"
    /\ \E ok \in BOOLEAN : Finish(r, IF ok THEN "skipped" ELSE "system_error")
    /\ UNCHANGED <<jiraLabels, workItems, calls, untouchedByRace>>

\* steps 1 to 3: getIssue of the original and the implementation adapter
RaceGenerate(r) ==
    /\ runs[r].pc = "dc_get_original"
    /\ \/ \E type \in RaceTypes :
            runs' = [runs EXCEPT ![r].pc = "dc_artifacts", ![r].type = type]
       \/ \E outcome \in {"system_error", "implementation_failed"} : Finish(r, outcome)
    /\ UNCHANGED <<jiraLabels, workItems, calls, untouchedByRace>>

\* step 4, one fs.writeFile of createImplementationArtifacts; the end of the
\* write, complete or failed, is logged
RaceWriteFile(r) ==
    /\ runs[r].pc = "dc_artifacts"
    /\ LET files == RaceFiles(runs[r].type)
           n == runs[r].written + 1
           dir == workItems[RaceKey].implementation
       IN \/ /\ workItems' = [workItems EXCEPT ![RaceKey].implementation =
                                 [name \in DOMAIN dir \cup {files[n].name} |->
                                     IF name = files[n].name
                                     THEN [content |-> files[n].content, run |-> r]
                                     ELSE dir[name]]]
             /\ runs' = [runs EXCEPT ![r].written = n,
                                     ![r].pc = IF n = Len(files) THEN "dc_success"
                                               ELSE "dc_artifacts"]
             /\ calls' = IF n = Len(files)
                         THEN Append(calls, [service |-> "fs",
                                             operation |-> "createImplementationArtifacts",
                                             ok |-> TRUE, run |-> r])
                         ELSE calls
          \/ /\ Finish(r, "artifacts_failed")
             /\ calls' = Append(calls, [service |-> "fs",
                                        operation |-> "createImplementationArtifacts",
                                        ok |-> FALSE, run |-> r])
             /\ UNCHANGED workItems
    /\ UNCHANGED <<jiraLabels, untouchedByRace>>

\* step 5 and the label read of updateStageLabel
RaceStageGet(r) ==
    /\ runs[r].pc = "dc_success"
    /\ \/ runs' = [runs EXCEPT ![r].pc = "dc_stage_put", ![r].fetched = jiraLabels]
       \/ \E outcome \in {"system_error", "implementation_generated"} : Finish(r, outcome)
    /\ UNCHANGED <<jiraLabels, workItems, calls, untouchedByRace>>

\* the label write of updateStageLabel and the return
RaceStagePut(r) ==
    /\ runs[r].pc = "dc_stage_put"
    /\ \E ok \in BOOLEAN :
         /\ jiraLabels' = IF ok THEN updatedLabels(runs[r].fetched, "implemented")
                          ELSE jiraLabels
         /\ runs' = [runs EXCEPT ![r].pc = "done", ![r].result = "implementation_generated",
                                 ![r].stageWritten = ok]
    /\ UNCHANGED <<workItems, calls, untouchedByRace>>

NextRace ==
    \E r \in Runs :
        \/ RaceDeliver(r) \/ RaceSkip(r) \/ RaceGenerate(r) \/ RaceWriteFile(r)
        \/ RaceStageGet(r) \/ RaceStagePut(r)

SpecRace == InitRace /\ [][NextRace]_vars

-----------------------------------------------------------------------------
(* A bundle written by createImplementationArtifacts and read back by
   loadImplementationResult, no file operation failing *)

InitBundle ==
    /\ payload \in AdvancePayloads
    /\ pc = "bundle_generate"
    /\ Idle
    /\ claudeResponse = NoResponse
    /\ jiraLabels = payload.issue.labels
    /\ jiraFields = TrackerFields(payload)
    /\ workItems = EmptyStore
    /\ targetStage = None
    /\ runs = << >>

untouchedByBundle ==
    <<analysis, targetStage, runs, payload, classification, highestStage, errorMessage,
      fetched, claudeResponse, evaluation, finalScore, jiraLabels, jiraComments, jiraFields,
      created, links>>

\* the implementation phase up to step 4, for any original key and any result
\* of the adapter
BundleGenerate ==
    /\ pc = "bundle_generate"
    /\ \E key \in ArtifactKeys, impl \in ImplementationResults :
         /\ originalKey' = key
         /\ implementation' = impl
         /\ Call("claude", "generateImplementation", TRUE)
    /\ pc' = "bundle_persist"
    /\ UNCHANGED <<result, workItems, untouchedByBundle>>

\* createImplementationArtifacts, every write succeeding
BundlePersist ==
    /\ pc = "bundle_persist"
    /\ LET files == ArtifactFiles(implementation)
       IN workItems' = [workItems EXCEPT ![originalKey].implementation =
                            WriteFiles(@, files, Len(files))]
    /\ Call("fs", "createImplementationArtifacts", TRUE)
    /\ pc' = "bundle_load"
    /\ UNCHANGED <<result, originalKey, implementation, untouchedByBundle>>

\* loadImplementationResult for the same key: access of the summary, readdir,
\* readFile of the primary file of the type found
BundleLoad ==
    /\ pc = "bundle_load"
    /\ LET dir == workItems[originalKey].implementation
       IN IF CanLoad(dir)
          THEN /\ Call("fs", "loadImplementationResult", TRUE)
               /\ result' = [action |-> "loaded", errorType |-> None,
                             type |-> LoadedType(dir),
                             primaryDeliverable |-> dir[getPrimaryFileForType(LoadedType(dir))]]
          ELSE /\ Call("fs", "loadImplementationResult", FALSE)
               /\ result' = Outcome("evaluation_failed", "implementation_not_found")
    /\ pc' = "bundle_done"
    /\ UNCHANGED <<workItems, originalKey, implementation, untouchedByBundle>>

NextBundle == BundleGenerate \/ BundlePersist \/ BundleLoad

SpecBundle == InitBundle /\ [][NextBundle]_vars

-----------------------------------------------------------------------------
(* Deliveries of one created event, each running processInitialInquiry *)

IdleInquiry == [pc |-> "idle", fetched |-> << >>, criteriaKey |-> None]

\* created events of issues in their initial status, without labels, that are
\* taken for an initial inquiry
InquiryEvents ==
    {p \in Payloads :
        /\ p.webhookEvent = "jira:issue_created"
        /\ p.issue # NoIssue
        /\ p.issue.labels = {}
        /\ p.issue.labelRep = "string"
        /\ p.issue.status = "To Do"
        /\ isValidWebhookEvent(p)
        /\ classifyIssueType(p) = "initial_inquiry"}

InitInquiry ==
    /\ payload \in InquiryEvents
    /\ pc = "inquiries"
    /\ Idle
    /\ claudeResponse = NoResponse
    /\ jiraLabels = payload.issue.labels
    /\ jiraFields = TrackerFields(payload)
    /\ workItems = EmptyStore
    /\ targetStage = None
    /\ runs = [r \in Runs |-> IdleInquiry]

untouchedByInquiry ==
    <<analysis, targetStage, payload, pc, classification, result, calls, originalKey, highestStage,
      errorMessage, implementation, fetched, claudeResponse, evaluation, finalScore,
      jiraLabels, workItems>>

\* the key the tracker gives an issue created after n others
NextIssueKey(n) == IF n = 0 THEN NewIssueKey ELSE IF n = 1 THEN "PCP1-70" ELSE "PCP1-71"

InquiryStep(r, next, ok) ==
    runs' = [runs EXCEPT ![r].pc = IF ok THEN next ELSE "error"]

\* processWebhook on the event as it was sent: validity and phase are decided
\* on the snapshot the payload carries
InquiryDeliver(r) ==
    /\ runs[r].pc = "idle"
    /\ isValidWebhookEvent(payload)
    /\ classifyIssueType(payload) = "initial_inquiry"
    /\ runs' = [runs EXCEPT ![r].pc = "analyze"]
    /\ UNCHANGED <<jiraComments, jiraFields, created, links, untouchedByInquiry>>

\* Step 1: analyzeRequirements
InquiryAnalyze(r) ==
    /\ runs[r].pc = "analyze"
    /\ \E ok \in BOOLEAN : InquiryStep(r, "mark_get", ok)
    /\ UNCHANGED <<jiraComments, jiraFields, created, links, untouchedByInquiry>>

\* Step 2: markIssueAsTouchedByClaude, getIssue
InquiryMarkGet(r) ==
    /\ runs[r].pc = "mark_get"
    /\ \E ok \in BOOLEAN :
         runs' = [runs EXCEPT ![r] =
                    IF ok THEN [@ EXCEPT !.pc = "mark_put", !.fetched = jiraFields.description]
                    ELSE [@ EXCEPT !.pc = "error"]]
    /\ UNCHANGED <<jiraComments, jiraFields, created, links, untouchedByInquiry>>

\* Step 2: markIssueAsTouchedByClaude, updateIssue({description})
InquiryMarkPut(r) ==
    /\ runs[r].pc = "mark_put"
    /\ \E ok \in BOOLEAN :
         /\ jiraFields' = IF ok
                          THEN [jiraFields EXCEPT !.description = runs[r].fetched \o claudeMarker]
                          ELSE jiraFields
         /\ InquiryStep(r, "create", ok)
    /\ UNCHANGED <<jiraComments, created, links, untouchedByInquiry>>

\* Step 3: createDeliverableCriteriaIssue
InquiryCreate(r) ==
    /\ runs[r].pc = "create"
    /\ \E ok \in BOOLEAN :
         IF ok
         THEN /\ created' = Append(created,
                    [key |-> NextIssueKey(Len(created)),
                     project |-> ProjectKey(payload.issue.key),
                     issuetype |-> "Task", summary |-> CriteriaSummary(payload.issue),
                     description |-> CriteriaDescription(payload.issue)])
              /\ runs' = [runs EXCEPT ![r].pc = "link",
                                      ![r].criteriaKey = NextIssueKey(Len(created))]
         ELSE /\ InquiryStep(r, "link", FALSE)
              /\ UNCHANGED created
    /\ UNCHANGED <<jiraComments, jiraFields, links, untouchedByInquiry>>

\* Step 4: linkIssues, and the return
InquiryLink(r) ==
    /\ runs[r].pc = "link"
    /\ \E ok \in BOOLEAN :
         /\ links' = IF ok THEN links \cup {<<payload.issue.key, runs[r].criteriaKey>>}
                     ELSE links
         /\ InquiryStep(r, "ended", ok)
    /\ UNCHANGED <<jiraComments, jiraFields, created, untouchedByInquiry>>

\* the catch block: error comment (its own failure swallowed), then rethrow
InquiryErrorComment(r) ==
    /\ runs[r].pc = "error"
    /\ \E ok \in BOOLEAN :
         jiraComments' = IF ok THEN Append(jiraComments, "Claude Analysis Failed")
                         ELSE jiraComments
    /\ runs' = [runs EXCEPT ![r].pc = "ended"]
    /\ UNCHANGED <<jiraFields, created, links, untouchedByInquiry>>

NextInquiry ==
    \E r \in Runs :
        \/ InquiryDeliver(r) \/ InquiryAnalyze(r) \/ InquiryMarkGet(r) \/ InquiryMarkPut(r)
        \/ InquiryCreate(r) \/ InquiryLink(r) \/ InquiryErrorComment(r)

SpecInquiry == InitInquiry /\ [][NextInquiry]_vars

-----------------------------------------------------------------------------
(* The key of the original issue, written into the criteria issue and read back *)

\* longest summary of an original issue, in tokens
MaxSummary == 2

OriginalKeys == {"PCP1-68", "ABC-12", "abc1-3"}
SummaryTokens == {"Fix login bug", "PCP1-67", "ABC-12", "abc1-3"}
OriginalSummaries == UNION {[1..n -> SummaryTokens] : n \in 0..MaxSummary}

\* created events of original issues with any key and any summary
KeyEvents ==
    { [webhookEvent |-> "jira:issue_created", changelog |-> NoChangelog,
       issue |-> IssueOf(k, t, "To Do", su, <<"Users cannot log in">>, {}, "string")] :
        k \in OriginalKeys, t \in {"Story", "Task"}, su \in OriginalSummaries }

InitKey ==
    /\ payload \in KeyEvents
    /\ pc = "key_create"
    /\ Idle
    /\ claudeResponse = NoResponse
    /\ jiraLabels = payload.issue.labels
    /\ jiraFields = TrackerFields(payload)
    /\ workItems = EmptyStore
    /\ targetStage = None
    /\ runs = << >>

untouchedByKey ==
    <<analysis, targetStage, runs, payload, classification, result, highestStage, errorMessage,
      implementation, fetched, claudeResponse, evaluation, finalScore, jiraLabels,
      jiraComments, jiraFields, links, workItems>>

\* createDeliverableCriteriaIssue for the original issue, the call succeeding
KeyCreate ==
    /\ pc = "key_create"
    /\ created' = Append(created,
           [key |-> NewIssueKey, project |-> ProjectKey(payload.issue.key),
            issuetype |-> "Task", summary |-> CriteriaSummary(payload.issue),
            description |-> CriteriaDescription(payload.issue)])
    /\ Call("jira", "createIssue", TRUE)
    /\ pc' = "key_extract"
    /\ UNCHANGED <<originalKey, untouchedByKey>>

\* a later phase reading the key from the criteria issue's summary and description
KeyExtract ==
    /\ pc = "key_extract"
    /\ originalKey' = extractOriginalIssueKey(created[1].summary, created[1].description)
    /\ pc' = "key_done"
    /\ UNCHANGED <<calls, created, untouchedByKey>>

NextKey == KeyCreate \/ KeyExtract

SpecKey == InitKey /\ [][NextKey]_vars

-----------------------------------------------------------------------------
(* Properties *)

SupportedEvent == payload.webhookEvent \in {"jira:issue_created", "jira:issue_updated"}
SupportedType == HasIssue(payload) /\ payload.issue.issuetype \in {"Story", "Task"}
Handled == pc # "start" /\ result # Ignored
AllCallsSucceeded == \A i \in 1..Len(calls) : calls[i].ok
Called(service, operation) ==
    \E i \in 1..Len(calls) : calls[i].service = service /\ calls[i].operation = operation
CalledService(service) == \E i \in 1..Len(calls) : calls[i].service = service
StoreUntouched == workItems \in InitialStores
\* the event is a criteria issue that passes validation and key extraction
CriteriaIssueEvent(class) ==
    /\ classification = class
    /\ validateClaudeGeneratedCriteria(payload.issue)
    /\ extractOriginalIssueKey(payload.issue.summary, payload.issue.description) # None

\* C1: an event whose type is neither created nor updated, or without issue or
\* issue key, or whose issue type is neither Story nor Task, is answered with
\* 'ignored' and no tracker, adapter or artifact-store call is ever made for it.
C1_UnsupportedEventIgnoredWithoutCalls ==
    (~SupportedEvent \/ ~SupportedType) =>
        /\ pc \in {"start", "done"}
        /\ pc = "done" => result = Ignored
        /\ calls = << >>
        /\ jiraComments = << >> /\ created = << >> /\ links = {}
        /\ jiraLabels = (IF payload.issue = NoIssue THEN {} ELSE payload.issue.labels)
        /\ jiraFields = TrackerFields(payload)
        /\ StoreUntouched

C1_Witness ==
    /\ pc = "done" /\ result = Ignored
    /\ SupportedEvent /\ HasIssue(payload) /\ payload.issue.issuetype = "Bug"

\* C2: an updated event (of an issue with a key and type Story or Task) reaches
\* a phase handler exactly when its changelog has a status change, the summary
\* carries 'Deliverable Criteria:' and the status is one of the four actionable
\* statuses; every other updated event is ignored.
C2_UpdatedEventHandledIffActionable ==
    (pc # "start" /\ payload.webhookEvent = "jira:issue_updated" /\ SupportedType) =>
        /\ Handled <=>
             /\ payload.changelog # NoChangelog /\ "status" \in payload.changelog
             /\ Includes(payload.issue.summary, "Deliverable Criteria:")
             /\ payload.issue.status \in {"Ready for Implementation", "In Progress",
                                          "Ready for Development", "Testing Criteria"}
        /\ Handled => classification \in {"deliverable_criteria", "testing_criteria"}
        /\ ~Handled => result = Ignored /\ pc = "done" /\ calls = << >>

C2_Witness ==
    /\ payload.webhookEvent = "jira:issue_updated" /\ Handled
    /\ payload.issue.status = "In Progress"

\* C3: a classified issue whose summary carries 'Deliverable Criteria:' is
\* testing_criteria at status Testing Criteria, deliverable_criteria at the
\* three ready statuses and ignore at every other status.
C3_CriteriaIssueClassifiedByStatus ==
    (classification # None /\ Includes(payload.issue.summary, "Deliverable Criteria:")) =>
        classification =
            (IF payload.issue.status = "Testing Criteria" THEN "testing_criteria"
             ELSE IF payload.issue.status \in {"Ready for Implementation", "In Progress",
                                               "Ready for Development"}
             THEN "deliverable_criteria"
             ELSE "ignore")

C3_Witness ==
    /\ classification = "testing_criteria"
    /\ pc \in {"tc_load", "tc_skip", "tc_catch"}

\* C4: a valid event whose summary and description hold none of the marker
\* strings is classified initial_inquiry, whatever its status.
C4_UnmarkedIssueIsInitialInquiry ==
    (/\ classification # None
     /\ \A marker \in claudeMarkers :
            /\ ~Includes(payload.issue.summary, marker)
            /\ ~Includes(payload.issue.description, marker)) =>
        /\ classification = "initial_inquiry"
        /\ pc # "done" \/ result # Ignored

C4_Witness ==
    /\ classification = "initial_inquiry" /\ pc = "ii_analyze"
    /\ payload.issue.status = "Testing Criteria"

\* C5: a valid event with a marker in summary or description but without
\* 'Deliverable Criteria:' in the summary is classified ignore at every status
\* and no phase handler runs for it.
C5_MarkedNonCriteriaIssueIgnored ==
    (/\ classification # None
     /\ \E marker \in claudeMarkers :
            \/ Includes(payload.issue.summary, marker)
            \/ Includes(payload.issue.description, marker)
     /\ ~Includes(payload.issue.summary, "Deliverable Criteria:")) =>
        /\ classification = "ignore"
        /\ pc = "done" /\ result = Ignored /\ calls = << >>

C5_Witness ==
    /\ classification = "ignore" /\ pc = "done"
    /\ Includes(payload.issue.description, "*Touched by Claude*")
    /\ ~Includes(payload.issue.summary, "Deliverable Criteria:")
    /\ payload.issue.status = "Ready for Implementation"

\* C6: the deliverable-criteria phase on a criteria issue whose labels hold the
\* implemented or tested stage tag, and no force-reimplement tag, makes no
\* adapter call, no artifact write and no stage write, and (its tracker calls
\* succeeding) returns skipped after posting the explanatory comment.
C6_ImplementedIssueIsSkipped ==
    (/\ CriteriaIssueEvent("deliverable_criteria")
     /\ payload.issue.labels \cap {"claude-stage-implemented", "claude-stage-tested"} # {}
     /\ "claude-force-reimplement" \notin payload.issue.labels) =>
        /\ ~CalledService("claude")
        /\ ~CalledService("fs")
        /\ ~Called("jira", "updateIssue.labels")
        /\ (pc = "done" /\ AllCallsSucceeded) =>
               result.action = "skipped" /\ jiraComments = <<"Implementation Skipped">>

\* C7: with the force-<kind> tag on the issue the phase does not skip, and the
\* tag is off the issue by the time the adapter is invoked.
C7_OverrideTagBypassesAndIsConsumed ==
    /\ (/\ CriteriaIssueEvent("deliverable_criteria")
        /\ "claude-force-reimplement" \in payload.issue.labels) =>
           /\ pc # "dc_skip" /\ result.action # "skipped"
           /\ Called("claude", "generateImplementation") =>
                  "claude-force-reimplement" \notin jiraLabels
    /\ (/\ CriteriaIssueEvent("testing_criteria")
        /\ "claude-force-retest" \in payload.issue.labels) =>
           /\ pc # "tc_skip" /\ result.action # "skipped"
           /\ Called("claude", "evaluateImplementation") =>
                  "claude-force-retest" \notin jiraLabels

\* C8: the testing-criteria phase on a criteria issue whose labels hold the
\* tested stage tag, and no force-retest tag, neither loads artifacts nor calls
\* the evaluation adapter and returns skipped with its comment; at every other
\* stage it goes on to load the artifact bundle.
C8_TestedIssueIsSkipped ==
    (/\ CriteriaIssueEvent("testing_criteria")
     /\ "claude-force-retest" \notin payload.issue.labels) =>
        IF "claude-stage-tested" \in payload.issue.labels
        THEN /\ ~CalledService("fs")
             /\ ~CalledService("claude")
             /\ (pc = "done" /\ AllCallsSucceeded) =>
                    result.action = "skipped" /\ jiraComments = <<"Testing Skipped">>
        ELSE /\ pc # "tc_skip" /\ result.action # "skipped"
             /\ pc = "done" => Called("fs", "loadImplementationResult")

\* C9: the verdict is pass exactly when the overall score is at least 80, no
\* error is CRITICAL or HIGH, requirements coverage is at least 20 and the
\* adapter's readyForDeployment flag is set.
C9_VerdictIffAllFourConditions ==
    pc = "scored" =>
        (finalScore.meetsCriteria <=>
            /\ finalScore.overallScore >= 80
            /\ \A i \in 1..Len(evaluation.errors) : evaluation.errors[i] \notin {"CRITICAL", "HIGH"}
            /\ evaluation.requirementsCoverage >= 20
            /\ evaluation.readyForDeployment)

C9_Witness ==
    /\ pc = "scored"
    /\ finalScore.overallScore >= 95
    /\ evaluation.readyForDeployment
    /\ evaluation.errors = <<"HIGH">>
    /\ ~finalScore.meetsCriteria

\* C10: for a response that passes section validation, each category score used
\* in the verdict lies in 0..25 and the overall score, their sum, lies in 0..100.
C10_ScoresCappedAndOverallInRange ==
    pc = "scored" =>
        /\ \A category \in {"requirementsCoverage", "qualityCraftsmanship",
                            "usabilityPracticality", "completenessPolish"} :
               finalScore.breakdown[category] \in 0..25
        /\ finalScore.overallScore \in 0..100

\* C11: for every combination of tracker, adapter and artifact-store failures
\* the deliverable-criteria and testing-criteria handlers end with a structured
\* outcome; no exception leaves them towards processWebhook's caller.
C11_PhaseNeverLetsExceptionEscape ==
    classification \in {"deliverable_criteria", "testing_criteria"} =>
        /\ result # Thrown
        /\ pc = "done" =>
               result.action \in {"skipped", "implementation_generated", "implementation_failed",
                                  "artifacts_failed", "evaluation_passed", "evaluation_failed",
                                  "system_error"}

\* the comment titles that report an outcome
OutcomeComments(outcome) ==
    CASE outcome.action = "skipped" -> {"Implementation Skipped", "Testing Skipped"}
      [] outcome.action = "requirements_analyzed" -> {}  \* processInitialInquiry posts none
      [] outcome.action = "implementation_generated" -> {"Implementation Generated"}
      [] outcome.action = "implementation_failed" -> {"Implementation Generation Failed"}
      [] outcome.action = "artifacts_failed" -> {"Artifacts Creation Failed"}
      [] outcome.action = "evaluation_passed" -> {"Testing Evaluation - PASSED"}
      [] outcome.action = "evaluation_failed" ->
             {"Testing Evaluation - FAILED", "Testing Evaluation - ERROR"}
      [] outcome.action = "system_error" ->
             {"Automation System Error", "Testing Evaluation System Error"}
      [] OTHER -> {}

\* C12: every terminal outcome of a phase handler has a tracker comment posted
\* for it in the same run before the outcome is returned.
C12_EveryOutcomeHasItsComment ==
    (pc = "done" /\ result.action \notin {"ignored", "thrown"}) =>
        \E i \in 1..Len(jiraComments) : jiraComments[i] \in OutcomeComments(result)

\* the highest stage whose tag is in a label set
HighestStageTag(labels) ==
    IF "claude-stage-tested" \in labels THEN "tested"
    ELSE IF "claude-stage-implemented" \in labels THEN "implemented"
    ELSE IF "claude-stage-analyzed" \in labels THEN "analyzed"
    ELSE "none"

\* C13: the stage a phase handler reads from the delivered issue is the highest
\* stage whose tag is in the issue's label set (tested > implemented > analyzed
\* > none), for every label set, sets holding several stage tags included.
C13_CurrentStageIsHighestTagPresent ==
    (\E class \in {"deliverable_criteria", "testing_criteria"} : CriteriaIssueEvent(class)) =>
        highestStage = HighestStageTag(payload.issue.labels)

\* the successful label writes of updateStageLabel so far
SuccessfulAdvances == {i \in CallsOf("updateIssue.labels") : calls[i].ok}

\* C14: stage advancement is idempotent: for every initial label set and every
\* target stage, the label set after N >= 1 successful updateStageLabel calls
\* with that target is the label set one call produces from the initial set.
C14_AdvanceStageIsIdempotent ==
    (pc \in {"advance_get", "advance_put"} /\ SuccessfulAdvances # {}) =>
        jiraLabels = updatedLabels(payload.issue.labels, targetStage)

C14_Witness ==
    /\ pc = "advance_get"
    /\ Cardinality(SuccessfulAdvances) >= 2
    /\ targetStage = "tested"
    /\ payload.issue.labels = {"claude-stage-implemented", "backend"}
    /\ jiraLabels = {"claude-stage-tested", "backend"}

\* C15: whatever the interleaving of concurrent deliveries for one criteria
\* issue, the issue's label set in the tracker holds at most one of the three
\* stage labels (it held at most one initially).
C15_AtMostOneStageLabel ==
    pc = "runs" => Cardinality(jiraLabels \cap stageLabels) <= 1

C15_Witness ==
    /\ pc = "runs"
    /\ \E r \in Runs :
         /\ runs[r].pc = "stage_put"
         /\ runs[r].newStage = "implemented"
         /\ runs[r].fetched \cap stageLabels = {}
    /\ jiraLabels \cap stageLabels = {"claude-stage-tested"}
    /\ payload.issue.labels \cap stageLabels = {}

StageRank(stage) ==
    CASE stage = "none" -> 0
      [] stage = "analyzed" -> 1
      [] stage = "implemented" -> 2
      [] stage = "tested" -> 3

\* C16: across any sequence and interleaving of deliveries for a criteria issue
\* that never carries a force tag, the stage recorded in its labels never moves
\* backward in the order none < analyzed < implemented < tested.
C16_StageNeverMovesBackward ==
    [][(pc = "runs" /\ jiraLabels \cap overrideLabels = {}) =>
          StageRank(HighestStageTag(jiraLabels')) >= StageRank(HighestStageTag(jiraLabels))]_vars

\* the i-th call belongs to updateStageLabel: the label write, or the label read
\* that follows the success comment or the saving of the evaluation
StageCall(i) ==
    \/ calls[i].operation = "updateIssue.labels"
    \/ /\ calls[i].operation = "getIssue"
       /\ i > 1
       /\ calls[i-1].operation \in {"addComment", "saveEvaluationResults"}
StageCallFailed == \E i \in 1..Len(calls) : StageCall(i) /\ ~calls[i].ok
OtherCallsSucceeded == \A i \in 1..Len(calls) : StageCall(i) \/ calls[i].ok

\* C17: when the label read or the label write of the stage advancement fails
\* (every other call succeeding) the error is swallowed: nothing is thrown, no
\* catch block is entered, and the phase returns implementation_generated,
\* respectively evaluation_passed or evaluation_failed by verdict.
C17_StageWriteFailureIsSwallowed ==
    (/\ classification \in {"deliverable_criteria", "testing_criteria"}
     /\ StageCallFailed /\ OtherCallsSucceeded) =>
        /\ result # Thrown
        /\ pc \notin {"dc_catch", "tc_catch"}
        /\ errorMessage = None
        /\ pc = "done" =>
               result = (IF classification = "deliverable_criteria"
                         THEN Outcome("implementation_generated", None)
                         ELSE IF finalScore.meetsCriteria THEN Passed
                         ELSE VerdictFailed)

C17_Witness ==
    /\ classification = "deliverable_criteria"
    /\ pc = "done" /\ result.action = "implementation_generated"
    /\ calls[Len(calls)].operation = "updateIssue.labels" /\ ~calls[Len(calls)].ok
    /\ OtherCallsSucceeded
    /\ jiraLabels = payload.issue.labels

EvaluationReturnedBefore(i) ==
    \E j \in 1..(i-1) : calls[j].operation = "evaluateImplementation" /\ calls[j].ok

\* C18: in the testing phase every comment posted after the evaluation adapter
\* returned a result (the verdict comment, pass or fail) comes after an attempt
\* to advance the stage, and a run in which the adapter returned no result
\* (skipped, implementation_not_found, claude_evaluation_failure) never attempts
\* the stage write.
C18_StageAdvancedBeforeVerdictOnly ==
    classification = "testing_criteria" =>
        /\ \A i \in 1..Len(calls) :
               (calls[i].operation = "addComment" /\ EvaluationReturnedBefore(i)) =>
                   \E k \in 1..(i-1) : StageCall(k) /\ EvaluationReturnedBefore(k)
        /\ \A k \in 1..Len(calls) : StageCall(k) => EvaluationReturnedBefore(k)
        /\ (pc = "done" /\ (\/ result.action = "skipped"
                            \/ result.errorType \in {"implementation_not_found",
                                                     "claude_evaluation_failure"})) =>
               \A k \in 1..Len(calls) : ~StageCall(k)

C18_Witness ==
    /\ classification = "testing_criteria"
    /\ pc = "done"
    /\ jiraComments = <<"Testing Evaluation - FAILED">>
    /\ ~finalScore.meetsCriteria
    /\ result = VerdictFailed
    /\ "claude-stage-tested" \in jiraLabels
    /\ "claude-stage-tested" \notin payload.issue.labels

NoMarkers ==
    \A marker \in claudeMarkers :
        /\ ~Includes(payload.issue.summary, marker)
        /\ ~Includes(payload.issue.description, marker)

\* C19: a created event for a Story without markers, every external call
\* succeeding, creates exactly one criteria issue of type Task in the project of
\* the original with summary 'Deliverable Criteria: <key> - <summary>', links
\* it to the original, returns its key and writes no label to the original.
C19_StoryCreatesOneLinkedCriteriaIssue ==
    (/\ payload.webhookEvent = "jira:issue_created"
     /\ HasIssue(payload) /\ payload.issue.issuetype = "Story"
     /\ NoMarkers
     /\ pc = "done" /\ AllCallsSucceeded) =>
        /\ result.action = "requirements_analyzed"
        /\ Len(created) = 1
        /\ created[1].issuetype = "Task"
        /\ payload.issue.key = "PCP1-68" => created[1].project = "PCP1"
        /\ created[1].summary =
               <<"Deliverable Criteria:", payload.issue.key, "-">> \o payload.issue.summary
        /\ links = {<<payload.issue.key, created[1].key>>}
        /\ result.criteriaIssue = created[1].key
        /\ result.originalIssue = payload.issue.key
        /\ ~Called("jira", "updateIssue.labels")
        /\ jiraLabels = payload.issue.labels

\* the message of the error a failed step of the initial-inquiry phase throws
StepError(operation) ==
    CASE operation = "analyzeRequirements" -> "Requirements analysis failed"
      [] operation = "getIssue" -> "Failed to fetch issue"
      [] operation = "updateIssue.description" -> "Failed to update issue"
      [] operation = "createIssue" -> "Failed to create issue"
      [] operation = "linkIssues" -> "Failed to link issues"
      [] OTHER -> None

\* C20: in the initial-inquiry phase a failed step (analysis, marking, creating,
\* linking) is followed by one attempt to post the error comment on the original
\* issue and then by the error leaving processWebhook; whether that comment
\* succeeds or fails, the error that leaves is the one of the failed step, and
\* nothing is thrown when no step failed (by a failed call or by a TypeError on
\* an analysis that lacks a section).
C20_InquiryFailureCommentedAndRethrown ==
    classification = "initial_inquiry" =>
        /\ \A i \in 1..Len(calls) :
               (~calls[i].ok /\ calls[i].operation # "addComment") =>
                   /\ pc \in {"ii_error", "done"}
                   /\ errorMessage = StepError(calls[i].operation)
                   /\ \A j \in 1..(i-1) : calls[j].ok
                   /\ pc = "done" =>
                          /\ result = Thrown
                          /\ Len(calls) = i + 1
                          /\ calls[i+1].service = "jira"
                          /\ calls[i+1].operation = "addComment"
                          /\ jiraComments = (IF calls[i+1].ok
                                             THEN <<"Claude Analysis Failed">> ELSE << >>)
        /\ result = Thrown =>
               \/ \E i \in 1..Len(calls) : ~calls[i].ok /\ calls[i].operation # "addComment"
               \/ errorMessage = TypeError

C20_Witness ==
    /\ classification = "initial_inquiry"
    /\ pc = "done" /\ result = Thrown
    /\ Len(calls) = 5
    /\ calls[4].operation = "createIssue" /\ ~calls[4].ok
    /\ calls[5].operation = "addComment" /\ ~calls[5].ok
    /\ errorMessage = "Failed to create issue"

-----------------------------------------------------------------------------
(* Artifact bundle, key extraction, adapter responses, failure branches *)

BundleWritten ==
    \E i \in 1..Len(calls) : calls[i].operation = "createImplementationArtifacts" /\ calls[i].ok
FileNames(files) == {files[i].name : i \in 1..Len(files)}

\* C21: after an implementation run has written its bundle, the bundle under the
\* original key consists exactly of the files of that run; no file of an earlier
\* run remains.
C21_RerunOverwritesBundleWholesale ==
    (classification = "deliverable_criteria" /\ BundleWritten) =>
        DOMAIN workItems[originalKey].implementation = FileNames(ArtifactFiles(implementation))

PassedGuard(r) == runs[r].pc \notin {"idle", "dc_skip"} /\ runs[r].result # "skipped"
LastBundle == calls[Len(calls)]

\* C22: the skip guard looks only at the labels the delivery carries: a delivery
\* at stage none passes it whatever other runs are doing, so two deliveries can
\* both pass it and both generate; once a run has written the stage the issue
\* is at stage implemented, and when no run is writing files the last file of
\* the bundle that was completed last is that run's.
C22_GuardIsCheckThenAct ==
    /\ \A r \in Runs : (runs[r].pc # "idle" /\ runs[r].stage = "none") => PassedGuard(r)
    /\ \A r \in Runs : (runs[r].pc # "idle" /\ runs[r].stage # "none") =>
           /\ runs[r].pc \in {"dc_skip", "done"}
           /\ runs[r].type = None /\ runs[r].written = 0 /\ ~runs[r].stageWritten
    /\ (\E r \in Runs : runs[r].stageWritten) => "claude-stage-implemented" \in jiraLabels
    /\ (/\ calls # << >>
        /\ LastBundle.ok
        /\ \A r \in Runs : runs[r].pc # "dc_artifacts") =>
           LET files == RaceFiles(runs[LastBundle.run].type)
           IN workItems[RaceKey].implementation[files[Len(files)].name].run = LastBundle.run

\* two deliveries with labels the guard can read, both at stage none, both
\* generated and finished; the stage is implemented and the bundle is the one of
\* the run that wrote last
C22_Witness ==
    /\ \A r \in {1, 2} :
          /\ runs[r].rep = "object" /\ runs[r].stage = "none"
          /\ runs[r].type # None
          /\ runs[r].pc = "done" /\ runs[r].result = "implementation_generated"
    /\ "claude-stage-implemented" \in jiraLabels
    /\ Len(calls) = 2 /\ calls[1].ok /\ calls[2].ok
    /\ LET dir == workItems[RaceKey].implementation
       IN /\ DOMAIN dir = FileNames(RaceFiles(runs[LastBundle.run].type))
          /\ \A name \in DOMAIN dir : dir[name].run = LastBundle.run

\* the key each of the four patterns finds, in the order the patterns are tried
KeyCandidates(issue) ==
    <<FirstMatch(issue.summary, ProjectSpecificPattern),
      FirstMatch(issue.summary, GenericPattern),
      FirstMatch(issue.summary, PermissivePattern),
      IF FirstMatch(issue.description, OriginalIssueLines) = None THEN None
      ELSE CapturedKey(FirstMatch(issue.description, OriginalIssueLines))>>

FirstFound(candidates) ==
    IF \A i \in 1..Len(candidates) : candidates[i] = None THEN None
    ELSE candidates[CHOOSE i \in 1..Len(candidates) :
                        /\ candidates[i] # None
                        /\ \A j \in 1..(i-1) : candidates[j] = None]

CriteriaPhase == classification \in {"deliverable_criteria", "testing_criteria"}
LabelsUntouched ==
    /\ ~Called("jira", "updateIssue.labels")
    /\ jiraLabels = payload.issue.labels
CommentAt(i, title) ==
    /\ i \in 1..Len(calls)
    /\ calls[i].operation = "addComment"
    /\ calls[i].title = title

\* C23: the original key of a validated criteria issue is the match of the first
\* of these that matches: project-specific pattern on the summary, generic
\* pattern on the summary, permissive pattern on the summary, 'Original Issue:'
\* line of the description; when none matches there is no key, the phase makes
\* no adapter call and ends with the generic error comment and system_error.
C23_KeyExtractionOrder ==
    (CriteriaPhase /\ validateClaudeGeneratedCriteria(payload.issue)) =>
        /\ originalKey = FirstFound(KeyCandidates(payload.issue))
        /\ originalKey = None =>
               /\ ~CalledService("claude") /\ ~CalledService("fs")
               /\ pc = "done" =>
                      /\ Len(calls) = 1
                      /\ calls[1].operation = "addComment"
                      /\ calls[1].quotes = "Could not extract original issue key"
                      /\ result = (IF calls[1].ok THEN Outcome("system_error", "system_failure")
                                   ELSE Thrown)

C23_Witness ==
    /\ classification = "deliverable_criteria"
    /\ payload.issue.summary = <<"Deliverable Criteria:", "ABC-12", "PCP1-67">>
    /\ originalKey = "PCP1-67"
    /\ Called("claude", "generateImplementation")
    /\ pc = "done"

ImplementationMalformed(response) ==
    \/ ~response.json
    \/ response.fields # implementationFields
    \/ response.type \notin ImplementationTypes
EvaluationMalformed(response) == ~response.json \/ response.sections # requiredSections
AnalysisMalformed(response) == ~response.json \/ response.sections # analysisSections
JiraCallsSucceeded == \A i \in 1..Len(calls) : calls[i].service = "jira" => calls[i].ok

\* C24: a response without JSON or lacking a required part makes the implementation
\* and the evaluation adapter fail with a parse error, the phase ending with
\* implementation_failed, respectively evaluation_failed; the same response for
\* the analysis adapter gives the fallback analysis, and the inquiry goes on to
\* create the criteria issue.
C24_MalformedResponseHandling ==
    (claudeResponse # NoResponse /\ pc = "done" /\ JiraCallsSucceeded) =>
        /\ (classification = "deliverable_criteria" /\ ImplementationMalformed(claudeResponse)) =>
               /\ result = Outcome("implementation_failed", "claude_generation_failure")
               /\ calls[Len(calls)].quotes =
                      "Implementation generation failed: Failed to parse Claude implementation response"
        /\ (classification = "testing_criteria" /\ EvaluationMalformed(claudeResponse)) =>
               /\ result = Outcome("evaluation_failed", "claude_evaluation_failure")
               /\ calls[Len(calls)].quotes =
                      "Implementation evaluation failed: Failed to parse Claude evaluation response"
        /\ (classification = "initial_inquiry" /\ AnalysisMalformed(claudeResponse)) =>
               /\ analysis = getFallbackAnalysis
               /\ result.action = "requirements_analyzed"
               /\ Len(created) = 1

SucceededBefore(i, operation) ==
    \E j \in 1..(i-1) : calls[j].operation = operation /\ calls[j].ok

\* C25: in the deliverable-criteria phase the label write of stage implemented
\* comes only after the adapter call, the artifact write and the success comment
\* of the same run have succeeded, the run then returns implementation_generated,
\* and a run that ends skipped, implementation_failed, artifacts_failed,
\* system_error or thrown makes no label write.
C25_StageWrittenOnlyOnFullSuccess ==
    classification = "deliverable_criteria" =>
        /\ \A i \in 1..Len(calls) : calls[i].operation = "updateIssue.labels" =>
               /\ SucceededBefore(i, "generateImplementation")
               /\ SucceededBefore(i, "createImplementationArtifacts")
               /\ \E j \in 1..(i-1) : CommentAt(j, "Implementation Generated") /\ calls[j].ok
               /\ pc = "done"
               /\ result = Outcome("implementation_generated", None)
        /\ jiraLabels # payload.issue.labels =>
               /\ jiraLabels = updatedLabels(payload.issue.labels, "implemented")
               /\ Called("jira", "updateIssue.labels")
        /\ (pc = "done" /\ result.action # "implementation_generated") => LabelsUntouched

C25_Witness ==
    /\ classification = "deliverable_criteria"
    /\ pc = "done" /\ result = Outcome("implementation_generated", None)
    /\ AllCallsSucceeded
    /\ "claude-stage-implemented" \in jiraLabels
    /\ "claude-stage-implemented" \notin payload.issue.labels

\* C26: a criteria issue whose summary has the marker and whose description lacks
\* the 'generated by' marker fails before key extraction: no key, no adapter
\* call, no artifact read or write, no label write; its only call is the
\* comment that reports the validation error.
C26_UnvalidatedCriteriaFailsFast ==
    (/\ CriteriaPhase
     /\ Includes(payload.issue.summary, "Deliverable Criteria:")
     /\ ~Includes(payload.issue.description, "*Generated by Claude Automation System*")) =>
        /\ originalKey = None
        /\ ~CalledService("claude") /\ ~CalledService("fs")
        /\ LabelsUntouched
        /\ \A i \in 1..Len(calls) :
               /\ i = 1
               /\ calls[i].operation = "addComment"
               /\ calls[i].title = (IF classification = "deliverable_criteria"
                                    THEN "Automation System Error"
                                    ELSE "Testing Evaluation System Error")
               /\ calls[i].quotes = (IF classification = "deliverable_criteria"
                                     THEN "Deliverable criteria must be Claude-generated"
                                     ELSE "Testing criteria must be Claude-generated")
        /\ pc \in {"dc_catch", "tc_catch", "done"}
        /\ pc = "done" <=> Len(calls) = 1
        /\ (pc = "done" /\ calls[1].ok) => result = Outcome("system_error", "system_failure")

C26_Witness ==
    /\ classification = "testing_criteria"
    /\ FirstMatch(payload.issue.summary, ProjectSpecificPattern) = "PCP1-67"
    /\ ~Includes(payload.issue.description, "*Generated by Claude Automation System*")
    /\ pc = "done" /\ result = Outcome("system_error", "system_failure")
    /\ jiraComments = <<"Testing Evaluation System Error">>

FailedAt(i, operation) ==
    /\ i \in 1..Len(calls)
    /\ calls[i].operation = operation
    /\ ~calls[i].ok

generationErrors ==
    {"Implementation generation failed",
     "Implementation generation failed: Failed to parse Claude implementation response"}

\* C27: after a failed implementation adapter call the phase makes one more call,
\* the comment 'Implementation Generation Failed' quoting the adapter's error;
\* when that comment is posted the phase returns implementation_failed (nothing
\* is thrown); no artifact file is written and no label is written.
C27_AdapterFailureReported ==
    \A i \in 1..Len(calls) :
        (classification = "deliverable_criteria" /\ FailedAt(i, "generateImplementation")) =>
            /\ ~CalledService("fs")
            /\ LabelsUntouched
            /\ implementation = NoImplementation
            /\ Len(calls) > i =>
                   /\ CommentAt(i + 1, "Implementation Generation Failed")
                   /\ calls[i+1].quotes \in generationErrors
                   /\ calls[i+1].ok =>
                          /\ pc = "done" /\ Len(calls) = i + 1
                          /\ result = Outcome("implementation_failed", "claude_generation_failure")
            /\ (pc = "done" /\ JiraCallsSucceeded) =>
                   result = Outcome("implementation_failed", "claude_generation_failure")

C27_Witness ==
    /\ classification = "deliverable_criteria"
    /\ pc = "done" /\ result = Outcome("implementation_failed", "claude_generation_failure")
    /\ FailedAt(Len(calls) - 1, "generateImplementation")
    /\ claudeResponse # NoResponse /\ claudeResponse.json /\ claudeResponse.type = "script"
    /\ jiraComments = <<"Implementation Generation Failed">>

\* C28: after a failed artifact write that follows a successful adapter call the
\* phase makes one more call, the comment 'Artifacts Creation Failed' (another
\* title than the adapter failure's); when that comment is posted the phase
\* returns artifacts_failed with the generated implementation in the result; no
\* label is written.
C28_PersistenceFailureKeepsDeliverable ==
    \A i \in 1..Len(calls) :
        (classification = "deliverable_criteria"
         /\ FailedAt(i, "createImplementationArtifacts")) =>
            /\ SucceededBefore(i, "generateImplementation")
            /\ implementation \in ImplementationResults
            /\ LabelsUntouched
            /\ Len(calls) > i =>
                   /\ CommentAt(i + 1, "Artifacts Creation Failed")
                   /\ calls[i+1].quotes = "Failed to create implementation artifacts"
                   /\ \A j \in 1..Len(calls) : ~CommentAt(j, "Implementation Generation Failed")
                   /\ calls[i+1].ok =>
                          /\ pc = "done" /\ Len(calls) = i + 1
                          /\ result.action = "artifacts_failed"
                          /\ result.errorType = "artifacts_creation_failure"
                          /\ "implementation" \in DOMAIN result
                          /\ result.implementation = implementation

C28_Witness ==
    /\ classification = "deliverable_criteria"
    /\ pc = "done" /\ result.action = "artifacts_failed"
    /\ result.implementation.type = "documentation"
    /\ FailedAt(Len(calls) - 1, "createImplementationArtifacts")
    /\ jiraComments = <<"Artifacts Creation Failed">>

\* C29: a bundle without files cannot be loaded; after a failed load the testing
\* phase makes one more call, the comment that tells the user to generate the
\* implementation first; when that comment is posted the phase returns
\* evaluation_failed with error type implementation_not_found; the evaluation
\* adapter is never called and no label is written.
C29_MissingBundleReported ==
    \A i \in 1..Len(calls) :
        (classification = "testing_criteria" /\ calls[i].operation = "loadImplementationResult") =>
            /\ DOMAIN workItems[originalKey].implementation = {} => ~calls[i].ok
            /\ ~calls[i].ok =>
                   /\ ~CalledService("claude")
                   /\ LabelsUntouched
                   /\ Len(calls) > i =>
                          /\ CommentAt(i + 1, "Testing Evaluation - ERROR")
                          /\ calls[i+1].advice =
                                 "Please ensure the implementation has been generated first"
                          /\ calls[i+1].ok =>
                                 /\ pc = "done" /\ Len(calls) = i + 1
                                 /\ result = Outcome("evaluation_failed",
                                                     "implementation_not_found")

C29_Witness ==
    /\ classification = "testing_criteria"
    /\ pc = "done" /\ result = Outcome("evaluation_failed", "implementation_not_found")
    /\ workItems[originalKey].implementation = NoFiles
    /\ jiraComments = <<"Testing Evaluation - ERROR">>

\* C30: after a failed evaluation adapter call nothing is saved and no label is
\* written; when the error comment is posted the phase returns evaluation_failed
\* with error type claude_evaluation_failure and without an evaluationResult,
\* whereas evaluation_failed by verdict has no error type and carries the
\* evaluationResult and the list of its critical errors.
C30_AdapterCrashDistinctFromVerdict ==
    classification = "testing_criteria" =>
        /\ \A i \in 1..Len(calls) : FailedAt(i, "evaluateImplementation") =>
               /\ ~Called("fs", "saveEvaluationResults")
               /\ workItems[originalKey].evaluation = NoFiles
               /\ LabelsUntouched
               /\ Len(calls) > i =>
                      /\ CommentAt(i + 1, "Testing Evaluation - ERROR")
                      /\ calls[i+1].advice =
                             "Please check the implementation artifacts and try again"
                      /\ calls[i+1].ok =>
                             /\ pc = "done" /\ Len(calls) = i + 1
                             /\ result = Outcome("evaluation_failed",
                                                 "claude_evaluation_failure")
        /\ (pc = "done" /\ result.action = "evaluation_failed") =>
               IF \E i \in 1..Len(calls) : calls[i].operation = "evaluateImplementation"
                                           /\ calls[i].ok
               THEN /\ result.errorType = None
                    /\ "evaluationResult" \in DOMAIN result
                    /\ result.evaluationResult.evaluation = evaluation
                    /\ ~result.evaluationResult.finalScore.meetsCriteria
                    /\ result.failureReasons = SelectSeq(evaluation.errors, IsCritical)
               ELSE /\ result.errorType \in {"claude_evaluation_failure",
                                             "implementation_not_found"}
                    /\ "evaluationResult" \notin DOMAIN result

C30_Witness ==
    /\ classification = "testing_criteria"
    /\ pc = "done" /\ result = Outcome("evaluation_failed", "claude_evaluation_failure")
    /\ FailedAt(Len(calls) - 1, "evaluateImplementation")
    /\ claudeResponse # NoResponse /\ claudeResponse.json
    /\ jiraComments = <<"Testing Evaluation - ERROR">>

-----------------------------------------------------------------------------
(* Evaluation persistence, completion status, marker, bundle round trip *)

SaveCall(i) == calls[i].operation = "saveEvaluationResults"
VerdictTitle ==
    IF finalScore.meetsCriteria THEN "Testing Evaluation - PASSED"
    ELSE "Testing Evaluation - FAILED"

\* C31: in the testing phase the save of the evaluation follows the adapter's
\* answer directly and precedes every stage call and every comment; whether it
\* succeeds or fails the next call is the label read of the stage advancement,
\* and with every other call succeeding the run ends with the tested label,
\* the verdict comment and the outcome that the score alone determines.
C31_SaveFailureIsSwallowed ==
    classification = "testing_criteria" =>
        /\ \A i \in 1..Len(calls) : SaveCall(i) =>
               /\ i > 1 /\ calls[i-1].operation = "evaluateImplementation" /\ calls[i-1].ok
               /\ \A k \in 1..(i-1) : ~StageCall(k) /\ calls[k].operation # "addComment"
               /\ Len(calls) = i => pc = "tc_stage_get" /\ errorMessage = None
               /\ Len(calls) > i => calls[i+1].operation = "getIssue" /\ StageCall(i+1)
        /\ (/\ pc = "done"
            /\ \E i \in 1..Len(calls) : SaveCall(i)
            /\ \A i \in 1..Len(calls) : SaveCall(i) \/ calls[i].ok) =>
               /\ jiraLabels = updatedLabels(payload.issue.labels, "tested")
               /\ jiraComments[1] = VerdictTitle
               /\ result = (IF finalScore.meetsCriteria THEN Passed ELSE VerdictFailed)

C31_Witness ==
    /\ classification = "testing_criteria"
    /\ pc = "done"
    /\ \E i \in 1..Len(calls) : SaveCall(i) /\ ~calls[i].ok
    /\ \A i \in 1..Len(calls) : SaveCall(i) \/ calls[i].ok
    /\ workItems[originalKey].evaluation = NoFiles
    /\ "claude-stage-tested" \in jiraLabels
    /\ result = Passed

completionSteps == {"getAvailableTransitions", "transitionIssue", "getIssue",
                    "updateIssue.summary"}
completionNote == <<"**COMPLETED**", "*Updated by Claude Testing Evaluation System*">>

\* C32: after the PASSED comment the phase asks for the transitions; when one
\* is named after the completion status of the deliverable's type it transitions
\* the issue and changes nothing else; when none is, it fetches the issue and
\* writes the summary with the completion prefix and the description with the
\* completion note; when one of these calls fails, the next call is the
\* completion comment; in each case, the last call succeeding, the phase
\* returns evaluation_passed.
C32_CompletionFallbackChain ==
    \A i \in 1..Len(calls) :
        (/\ classification = "testing_criteria"
         /\ CommentAt(i, "Testing Evaluation - PASSED") /\ calls[i].ok) =>
            /\ Len(calls) > i => calls[i+1].operation = "getAvailableTransitions"
            /\ (Len(calls) > i + 1 /\ calls[i+1].ok) =>
                   IF calls[i+1].found
                   THEN /\ calls[i+2].operation = "transitionIssue"
                        /\ calls[i+2].ok =>
                               /\ pc = "done" /\ Len(calls) = i + 2 /\ result = Passed
                               /\ jiraFields = [TrackerFields(payload) EXCEPT
                                      !.status = getCompletionStatus(implementation.type)]
                   ELSE /\ calls[i+2].operation = "getIssue"
                        /\ (Len(calls) > i + 2 /\ calls[i+2].ok) =>
                               /\ calls[i+3].operation = "updateIssue.summary"
                               /\ calls[i+3].ok =>
                                      /\ pc = "done" /\ Len(calls) = i + 3 /\ result = Passed
                                      /\ jiraFields = [TrackerFields(payload) EXCEPT
                                             !.summary = <<getCompletionStatus(implementation.type)>>
                                                         \o payload.issue.summary,
                                             !.description = payload.issue.description
                                                             \o completionNote]
            /\ \A j \in (i+1)..Len(calls) :
                   (calls[j].operation \in completionSteps /\ ~calls[j].ok) =>
                       /\ jiraFields = TrackerFields(payload)
                       /\ Len(calls) > j =>
                              /\ CommentAt(j + 1, "Implementation Complete")
                              /\ calls[j+1].ok =>
                                     pc = "done" /\ Len(calls) = j + 1 /\ result = Passed

C32_Witness ==
    /\ classification = "testing_criteria"
    /\ pc = "done" /\ result = Passed
    /\ Len(calls) > 2
    /\ calls[Len(calls) - 1].operation = "updateIssue.summary" /\ ~calls[Len(calls) - 1].ok
    /\ jiraComments = <<"Testing Evaluation - PASSED", "Implementation Complete">>
    /\ jiraFields = TrackerFields(payload)

Count(text, token) == Cardinality({i \in 1..Len(text) : text[i] = token})
Marked == \E i \in 1..Len(calls) : calls[i].operation = "updateIssue.description" /\ calls[i].ok

\* C33: in the initial-inquiry phase the tracker's fields are as delivered until
\* the marker is written; from then on the description is the fetched
\* description followed by the marker block, it holds the 'touched by' marker
\* once, and summary, status and labels are as they were.
C33_MarkerAppendedToFetchedDescription ==
    classification = "initial_inquiry" =>
        IF Marked
        THEN /\ jiraFields.description = fetched.description \o claudeMarker
             /\ fetched.description = payload.issue.description
             /\ Count(jiraFields.description, "*Touched by Claude*") = 1
             /\ jiraFields.summary = payload.issue.summary
             /\ jiraFields.status = payload.issue.status
             /\ jiraLabels = payload.issue.labels
        ELSE /\ jiraFields = TrackerFields(payload)
             /\ jiraLabels = payload.issue.labels

C33_Witness ==
    /\ classification = "initial_inquiry"
    /\ Marked
    /\ payload.issue.description = <<"Users cannot log in">>
    /\ jiraFields.description = <<"Users cannot log in">> \o claudeMarker
    /\ pc = "done"

LastCallWroteLabels ==
    /\ calls # << >>
    /\ calls[Len(calls)].operation = "updateIssue.labels"
    /\ calls[Len(calls)].ok

\* C34: right after a successful label write of updateStageLabel the issue has
\* exactly one stage label, the one of the new stage, its other labels are the
\* non-stage labels the call fetched, and summary, description and status are
\* as they were.
C34_AdvanceWritesOnlyTheStageLabel ==
    LastCallWroteLabels =>
        /\ jiraLabels \cap stageLabels = {newLabel(targetStage)}
        /\ jiraLabels \ stageLabels = fetched.labels \ stageLabels
        /\ jiraFields = TrackerFields(payload)

C34_Witness ==
    /\ LastCallWroteLabels
    /\ Cardinality(SuccessfulAdvances) = 1
    /\ targetStage = "implemented"
    /\ fetched.labels = {"claude-stage-tested", "claude-force-retest"}
    /\ jiraLabels = {"claude-stage-implemented", "claude-force-retest"}

\* C35: a bundle that a successful implementation run wrote is loaded for the
\* same key without error, with the type of the deliverable that was written
\* and with the content of its primary file.
C35_BundleRoundTrip ==
    pc = "bundle_done" =>
        /\ result.action = "loaded"
        /\ result.type = implementation.type
        /\ result.primaryDeliverable = ArtifactFiles(implementation)[1].content

\* C36: however often and however concurrently the created event of one issue
\* is delivered, at most one criteria issue is created for it and its
\* description gets at most one marker block.
C36_AtMostOneCriteriaIssueAndMarker ==
    /\ Len(created) <= 1
    /\ Count(jiraFields.description, "*Touched by Claude*") <= 1

\* C37: once an initial-inquiry run has ended, with its result or with an
\* error, a description carrying the 'touched by' marker means that the
\* criteria issue was created and is linked to the original issue.
C37_MarkerImpliesLinkedCriteriaIssue ==
    (/\ classification = "initial_inquiry"
     /\ pc = "done"
     /\ Count(jiraFields.description, "*Touched by Claude*") > 0)
        => /\ Len(created) = 1
           /\ <<payload.issue.key, created[1].key>> \in links

-----------------------------------------------------------------------------
(* Events the tracker sends for the orchestrator's own writes *)

\* the calls that change the tracker
trackerWrites == {"updateIssue.description", "updateIssue.labels", "updateIssue.summary",
                  "transitionIssue", "addComment", "linkIssues", "createIssue"}

\* the changelog items of the update event a write causes; a comment or a link
\* changes no field
ChangedFields(operation) ==
    CASE operation = "updateIssue.description" -> {"description"}
      [] operation = "updateIssue.labels" -> {"labels"}
      [] operation = "updateIssue.summary" -> {"summary", "description"}
      [] operation = "transitionIssue" -> {"status"}
      [] OTHER -> NoChangelog

\* statuses outside the allow-list of isValidWebhookEvent and the tests of classifyIssueType
NonActionableStatuses ==
    Statuses \ {"Ready for Implementation", "In Progress", "Ready for Development",
                "Testing Criteria"}

LastCall == calls[Len(calls)]

LastCallIsWrite ==
    /\ Len(calls) > 0
    /\ LastCall.service = "jira"
    /\ LastCall.operation \in trackerWrites
    /\ LastCall.ok

\* the events for the last write, carrying the issue as the tracker holds it
\* right after the write: an update event for the issue written to, a created
\* event for the new criteria issue in a non-actionable initial status
EventsOfLastWrite ==
    IF LastCall.operation = "createIssue"
    THEN { [webhookEvent |-> "jira:issue_created", changelog |-> NoChangelog,
            issue |-> IssueOf(created[Len(created)].key, created[Len(created)].issuetype,
                              status, created[Len(created)].summary,
                              created[Len(created)].description, {}, rep)] :
             status \in NonActionableStatuses, rep \in LabelReps }
    ELSE { [webhookEvent |-> ev, changelog |-> ChangedFields(LastCall.operation),
            issue |-> IssueOf(payload.issue.key, payload.issue.issuetype, jiraFields.status,
                              jiraFields.summary, jiraFields.description, jiraLabels, rep)] :
             ev \in IF LastCall.operation \in {"addComment", "linkIssues"}
                    THEN {"jira:issue_updated", "comment_created", "issuelink_created"}
                    ELSE {"jira:issue_updated"},
             rep \in LabelReps }

IgnoredEvent(event) == ~isValidWebhookEvent(event) \/ classifyIssueType(event) = "ignore"

\* C38: the event the tracker sends for any successful write of the
\* orchestrator (marker, criteria issue, stage label, comment, link, completed
\* summary, completion transition) is rejected by isValidWebhookEvent or
\* classified as ignore, so no write starts another phase.
C38_OwnWritesAreIgnored ==
    LastCallIsWrite => \A event \in EventsOfLastWrite : IgnoredEvent(event)

C38_Witness ==
    /\ pc = "done"
    /\ LastCallIsWrite
    /\ LastCall.operation = "transitionIssue"
    /\ implementation.type = "code"
    /\ jiraFields.status = "Code Complete"
    /\ \E i \in 1..Len(calls) : calls[i].operation = "updateIssue.labels" /\ calls[i].ok
    /\ \E i \in 1..Len(calls) : calls[i].operation = "addComment" /\ calls[i].ok

\* C39: the key extracted from the summary and description of the criteria
\* issue created for an original issue is the key of that original issue,
\* whatever the original summary mentions.
C39_ExtractedKeyIsOriginalKey ==
    pc = "key_done" => originalKey = payload.issue.key

\* C40: whatever other writer of the issue's labels runs between the label
\* read and the label write of updateStageLabel, the write removes no label
\* that is not a stage tag and was on the issue just before the write.
C40_StageWriteKeepsOtherLabels ==
    [][\A r \in Runs :
          (runs[r].pc = "stage_put" /\ runs'[r].pc = "idle")
              => (jiraLabels \ stageLabels) \subseteq jiraLabels']_vars

====
